---- MODULE Spec2Model ----
(***************************************************************************)
(* TOAST provisioning of src/backend/catalog/toasting.c: the eligibility   *)
(* evaluator RelationNeedsToastTable, the provisioner create_toast_table   *)
(* and its three entry points AlterTableCreateToastTable,                  *)
(* AlterTableCreateToastTableWithOid and BootstrapToastTable.              *)
(*                                                                         *)
(* Oids are naturals, InvalidOid is 0.  Catalog rows are records.  Each    *)
(* entry point is one action: the backend runs it synchronously.           *)
(***************************************************************************)
EXTENDS Integers, Sequences, FiniteSets, Bags, TLC

VARIABLES
    bootstrap,        \* IsBootstrapProcessingMode()
    gp_upgrade_mode,  \* the gp_upgrade_mode GUC
    pg_class,         \* owner oid -> its pg_class row and tuple descriptor
    toastrels,        \* relations made by heap_create_with_catalog
    indexes,          \* indexes made by index_create
    pg_depend,        \* edges recorded by recordDependencyOn
    locks,            \* <<oid, lockmode>> held by the current unit of work
    xact,             \* what the current unit of work would undo on abort
    call,             \* outcome of the last entry-point invocation
    needs,            \* last result of RelationNeedsToastTable (evaluator runs)
    dropped,          \* owners dropped, by a committed or by the open unit of work
    chunks,           \* chunk rows stored in the toast relations, and the last insert
    backends,         \* the concurrent backends running ALTER TABLE (concurrent runs)
    names,            \* the names built for owner Oids (naming runs)
    fs,               \* the gpfs_hdfs_* call under way or last returned (gpfshdfs.c)
    pxf               \* the HdfsSplittableDataAccessor object and what it returned

vars == <<bootstrap, gp_upgrade_mode, pg_class, toastrels, indexes, pg_depend,
          locks, xact, call, needs, dropped, chunks, backends, names, fs, pxf>>

----------------------------------------------------------------------------
(* Bounds of the model.                                                    *)

\* live attributes of an evaluated relation
MaxAtts == 2
\* dropped attributes appended to an evaluated relation
MaxDropped == 8
\* chunk rows stored in the toast relations
MaxChunkRows == 3
\* owner Oids named in one run
MaxNamed == 3
\* splits of the file an accessor reads
MaxSplits == 2
\* records of one split
MaxRecords == 2
\* calls of readNextObject on one accessor
MaxReads == 4

----------------------------------------------------------------------------
(* Constants of the engine.  The numeric values of the header constants    *)
(* are not set in toasting.c; the values below are the ones the sizes in   *)
(* the design text assume.                                                 *)

InvalidOid == 0

\* tuple_length > TOAST_TUPLE_THRESHOLD: "a threshold of ~2000 bytes"
TOAST_TUPLE_THRESHOLD == 2000

\* offsetof(HeapTupleHeaderData, t_bits): the fixed per-row header
HeapTupleHeaderBitsOffset == 23

\* MAXIMUM_ALIGNOF
MAXIMUM_ALIGNOF == 8

\* TYPEALIGN(a, len): len rounded up to a multiple of a
TYPEALIGN(a, len) == ((len + a - 1) \div a) * a

MAXALIGN(len) == TYPEALIGN(MAXIMUM_ALIGNOF, len)

\* BITMAPLEN(natts): bytes of null bitmap for natts attributes
BITMAPLEN(natts) == (natts + 7) \div 8

\* the range of int32, the type of data_length, maxlen and tuple_length
INT32_MAX == 2147483647

INT32_MIN == -INT32_MAX - 1

\* a + b in int32: the sum wraps around when it leaves the range
Int32Add(a, b) ==
    IF a > 0 /\ b > 0 /\ a > INT32_MAX - b
    THEN (a - INT32_MAX - 1) + (b - INT32_MAX - 1)
    ELSE IF a < 0 /\ b < 0 /\ a < INT32_MIN - b
    THEN (a + INT32_MAX + 1) + (b + INT32_MAX + 1)
    ELSE a + b

\* (int32) TYPEALIGN(a, len) for an int32 len: TYPEALIGN computes in long,
\* the assignment to an int32 keeps the low 32 bits
Int32Align(a, len) ==
    IF len > INT32_MAX - (a - 1) THEN INT32_MIN ELSE TYPEALIGN(a, len)

\* att_align(cur_offset, attalign): 'c' char, 's' short, 'i' int, 'd' double
att_align(cur, attalign) ==
    CASE attalign = "c" -> cur
      [] attalign = "s" -> Int32Align(2, cur)
      [] attalign = "i" -> Int32Align(4, cur)
      [] attalign = "d" -> Int32Align(8, cur)

\* relstorage: heap, external, append-only rows, parquet
RelStorages == {"h", "x", "a", "p"}

RelationIsExternal(rel) == rel.relstorage = "x"

RelationIsAo(rel) == rel.relstorage \in {"a", "p"}

----------------------------------------------------------------------------
(* RelationNeedsToastTable, toasting.c 420-474.                            *)
(* An attribute is [attisdropped, attlen, attalign, maxlen, attstorage];   *)
(* maxlen is what type_maximum_size(atttypid, atttypmod) returns for it.   *)

\* mutant: dropped attributes are scanned like live ones
RECURSIVE ScanAtts_NoSkip(_, _, _)
ScanAtts_NoSkip(att, i, acc) ==
    IF i > Len(att) \/ acc.data_length \notin Int THEN acc
    ELSE LET aligned == att_align(acc.data_length, att[i].attalign) IN
         IF att[i].attlen > 0
         THEN ScanAtts_NoSkip(att, i + 1,
                  [acc EXCEPT !.data_length =
                                 Int32Add(aligned, att[i].attlen)])
         ELSE ScanAtts_NoSkip(att, i + 1,
                  [data_length |-> IF att[i].maxlen < 0 THEN aligned
                                   ELSE Int32Add(aligned, att[i].maxlen),
                   maxlength_unknown |-> acc.maxlength_unknown
                                         \/ att[i].maxlen < 0,
                   has_toastable_attrs |-> acc.has_toastable_attrs
                                           \/ att[i].attstorage # "p"])

\* for (i = 0; i < natts; i++) { ... } over att[i..], with the three locals
\* (an int32 data_length, read at every iteration so that each iteration
\* is evaluated before the next)
RECURSIVE ScanAtts(_, _, _)
ScanAtts(att, i, acc) ==
    IF i > Len(att) \/ acc.data_length \notin Int THEN acc
    ELSE IF att[i].attisdropped THEN ScanAtts(att, i + 1, acc)
    ELSE LET aligned == att_align(acc.data_length, att[i].attalign) IN
         IF att[i].attlen > 0
         THEN ScanAtts(att, i + 1,
                  [acc EXCEPT !.data_length =
                                 Int32Add(aligned, att[i].attlen)])
         ELSE ScanAtts(att, i + 1,
                  [data_length |-> IF att[i].maxlen < 0 THEN aligned
                                   ELSE Int32Add(aligned, att[i].maxlen),
                   maxlength_unknown |-> acc.maxlength_unknown
                                         \/ att[i].maxlen < 0,
                   has_toastable_attrs |-> acc.has_toastable_attrs
                                           \/ att[i].attstorage # "p"])

\* the locals after the loop
ScanResult(rel) ==
    ScanAtts(rel.att, 1, [data_length |-> 0, maxlength_unknown |-> FALSE,
                          has_toastable_attrs |-> FALSE])

\* tuple_length of lines 470-472: the sum of the two MAXALIGNs is computed
\* in long and stored in an int32
TupleLength(rel) ==
    LET overhead == MAXALIGN(HeapTupleHeaderBitsOffset
                                + BITMAPLEN(Len(rel.att)))
        data_length == ScanResult(rel).data_length
    IN IF data_length > INT32_MAX - (MAXIMUM_ALIGNOF - 1)
       THEN INT32_MIN + overhead
       ELSE Int32Add(overhead, MAXALIGN(data_length))

\* mutant: plain variable-length attributes count as toastable
RelationNeedsToastTable_PlainToastable(rel) ==
    IF RelationIsExternal(rel) THEN FALSE
    ELSE IF RelationIsAo(rel) THEN FALSE
    ELSE IF ~(\E i \in 1..Len(rel.att) :
                ~rel.att[i].attisdropped /\ rel.att[i].attlen <= 0) THEN FALSE
    ELSE IF ScanResult(rel).maxlength_unknown THEN TRUE
    ELSE TupleLength(rel) > TOAST_TUPLE_THRESHOLD

\* mutant: the unknown-length shortcut is lost
RelationNeedsToastTable_NoUnknown(rel) ==
    IF RelationIsExternal(rel) THEN FALSE
    ELSE IF RelationIsAo(rel) THEN FALSE
    ELSE IF ~ScanResult(rel).has_toastable_attrs THEN FALSE
    ELSE TupleLength(rel) > TOAST_TUPLE_THRESHOLD

\* mutant: >= instead of >
RelationNeedsToastTable_Ge(rel) ==
    IF RelationIsExternal(rel) THEN FALSE
    ELSE IF RelationIsAo(rel) THEN FALSE
    ELSE IF ~ScanResult(rel).has_toastable_attrs THEN FALSE
    ELSE IF ScanResult(rel).maxlength_unknown THEN TRUE
    ELSE TupleLength(rel) >= TOAST_TUPLE_THRESHOLD

\* mutant: append-only relations are not exempt
RelationNeedsToastTable_AoEligible(rel) ==
    IF RelationIsExternal(rel) THEN FALSE
    ELSE IF ~ScanResult(rel).has_toastable_attrs THEN FALSE
    ELSE IF ScanResult(rel).maxlength_unknown THEN TRUE
    ELSE TupleLength(rel) > TOAST_TUPLE_THRESHOLD

RelationNeedsToastTable(rel) ==
    IF RelationIsExternal(rel) THEN FALSE
    ELSE IF RelationIsAo(rel) THEN FALSE
    ELSE IF ~ScanResult(rel).has_toastable_attrs THEN FALSE
    ELSE IF ScanResult(rel).maxlength_unknown THEN TRUE
    ELSE TupleLength(rel) > TOAST_TUPLE_THRESHOLD

----------------------------------------------------------------------------
(* Identifiers.  The toast-table and row-type identifiers named by the     *)
(* switch of BootstrapToastTable (toasting.c 124-175) are declared in the  *)
(* catalog headers; the numbers here are distinct stand-ins for them.      *)

PgFileSpaceEntryToastTable == 11
GpSegmentConfigToastTable == 12
PgAttributeEncodingToastTable == 13
PgTypeEncodingToastTable == 14
PgPartitionEncodingToastTable == 15
PgFileSystemToastTable == 16
PgRemoteCredentialsToastTable == 17
PgResQueueToastTable == 18

PG_FILESPACE_ENTRY_TOAST_RELTYPE_OID == 31
GP_SEGMENT_CONFIGURATION_TOAST_RELTYPE_OID == 32
PG_ATTRIBUTE_ENCODING_TOAST_RELTYPE_OID == 33
PG_TYPE_ENCODING_TOAST_RELTYPE_OID == 34
PG_PARTITION_ENCODING_TOAST_RELTYPE_OID == 35
PG_FILESYSTEM_TOAST_RELTYPE_OID == 36
PG_REMOTE_CREDENTIALS_TOAST_RELTYPE_OID == 37
PG_RESQUEUE_TOAST_RELTYPE_OID == 38

\* first Oid GetNewOid hands out
FirstNormalObjectId == 100

\* GetNewOid: an Oid no catalog row uses; here the least one
GetNewOid(used) ==
    CHOOSE n \in FirstNormalObjectId..(FirstNormalObjectId + Cardinality(used)) :
        /\ n \notin used
        /\ \A m \in FirstNormalObjectId..(n - 1) : m \in used

\* mutant: the case labels are missing and every Oid takes the default
BootstrapToastTypid_Default(toastOid) == InvalidOid

\* mutant: the default arm falls through to the first entry of the map
BootstrapToastTypid_DefaultFirst(toastOid) ==
    CASE toastOid = GpSegmentConfigToastTable ->
             GP_SEGMENT_CONFIGURATION_TOAST_RELTYPE_OID
      [] toastOid = PgAttributeEncodingToastTable ->
             PG_ATTRIBUTE_ENCODING_TOAST_RELTYPE_OID
      [] toastOid = PgTypeEncodingToastTable ->
             PG_TYPE_ENCODING_TOAST_RELTYPE_OID
      [] toastOid = PgPartitionEncodingToastTable ->
             PG_PARTITION_ENCODING_TOAST_RELTYPE_OID
      [] toastOid = PgFileSystemToastTable ->
             PG_FILESYSTEM_TOAST_RELTYPE_OID
      [] toastOid = PgRemoteCredentialsToastTable ->
             PG_REMOTE_CREDENTIALS_TOAST_RELTYPE_OID
      [] toastOid = PgResQueueToastTable ->
             PG_RESQUEUE_TOAST_RELTYPE_OID
      [] OTHER -> PG_FILESPACE_ENTRY_TOAST_RELTYPE_OID

\* switch (toastOid) of BootstrapToastTable: the static map
BootstrapToastTypid(toastOid) ==
    CASE toastOid = PgFileSpaceEntryToastTable ->
             PG_FILESPACE_ENTRY_TOAST_RELTYPE_OID
      [] toastOid = GpSegmentConfigToastTable ->
             GP_SEGMENT_CONFIGURATION_TOAST_RELTYPE_OID
      [] toastOid = PgAttributeEncodingToastTable ->
             PG_ATTRIBUTE_ENCODING_TOAST_RELTYPE_OID
      [] toastOid = PgTypeEncodingToastTable ->
             PG_TYPE_ENCODING_TOAST_RELTYPE_OID
      [] toastOid = PgPartitionEncodingToastTable ->
             PG_PARTITION_ENCODING_TOAST_RELTYPE_OID
      [] toastOid = PgFileSystemToastTable ->
             PG_FILESYSTEM_TOAST_RELTYPE_OID
      [] toastOid = PgRemoteCredentialsToastTable ->
             PG_REMOTE_CREDENTIALS_TOAST_RELTYPE_OID
      [] toastOid = PgResQueueToastTable ->
             PG_RESQUEUE_TOAST_RELTYPE_OID
      [] OTHER -> InvalidOid

\* a comptypeOid argument of NULL
NullPointer == -1

----------------------------------------------------------------------------
(* Names: snprintf(..., "pg_toast_%u", relOid) and "pg_toast_%u_index".    *)

DecimalDigit(d) ==
    CASE d = 0 -> "0" [] d = 1 -> "1" [] d = 2 -> "2" [] d = 3 -> "3"
      [] d = 4 -> "4" [] d = 5 -> "5" [] d = 6 -> "6" [] d = 7 -> "7"
      [] d = 8 -> "8" [] d = 9 -> "9"

\* "%u"
RECURSIVE FormatUnsigned(_)
FormatUnsigned(n) ==
    IF n < 10 THEN DecimalDigit(n)
    ELSE FormatUnsigned(n \div 10) \o DecimalDigit(n % 10)

toast_relname(relOid) == "pg_toast_" \o FormatUnsigned(relOid)

\* mutant: the index name is built without its suffix
toast_idxname_NoSuffix(relOid) == "pg_toast_" \o FormatUnsigned(relOid)

toast_idxname(relOid) == "pg_toast_" \o FormatUnsigned(relOid) \o "_index"

\* no name has been built
NoNames == {}

\* lines 248-251 alone: the two names create_toast_table builds for relOid
NameToast(relOid) ==
    /\ Cardinality(names) < MaxNamed
    /\ names' = names \cup {[relOid |-> relOid,
                              toast_relname |-> toast_relname(relOid),
                              toast_idxname |-> toast_idxname(relOid)]}
    /\ UNCHANGED <<bootstrap, gp_upgrade_mode, pg_class, toastrels, indexes,
                   pg_depend, locks, xact, call, needs, dropped, chunks,
                   backends, fs, pxf>>

----------------------------------------------------------------------------
(* The tuple descriptor of a toast relation, toasting.c 253-275.           *)

\* mutant: the attstorage of chunk_data is left as bytea declares it
ToastTupleDesc_Extended ==
    << [attname |-> "chunk_id", atttypid |-> "OIDOID", attisdropped |-> FALSE,
        attlen |-> 4, attalign |-> "i", maxlen |-> 4, attstorage |-> "p"],
       [attname |-> "chunk_seq", atttypid |-> "INT4OID", attisdropped |-> FALSE,
        attlen |-> 4, attalign |-> "i", maxlen |-> 4, attstorage |-> "p"],
       [attname |-> "chunk_data", atttypid |-> "BYTEAOID", attisdropped |-> FALSE,
        attlen |-> -1, attalign |-> "i", maxlen |-> -1, attstorage |-> "x"] >>

ToastTupleDesc ==
    << [attname |-> "chunk_id", atttypid |-> "OIDOID", attisdropped |-> FALSE,
        attlen |-> 4, attalign |-> "i", maxlen |-> 4, attstorage |-> "p"],
       [attname |-> "chunk_seq", atttypid |-> "INT4OID", attisdropped |-> FALSE,
        attlen |-> 4, attalign |-> "i", maxlen |-> 4, attstorage |-> "p"],
       [attname |-> "chunk_data", atttypid |-> "BYTEAOID", attisdropped |-> FALSE,
        attlen |-> -1, attalign |-> "i", maxlen |-> -1, attstorage |-> "p"] >>

----------------------------------------------------------------------------
(* The relations that can own a toast table, and the inputs of the entry   *)
(* points.                                                                 *)

Owners == {1, 2}

\* relkind: ordinary table, view, uncataloged (seen only while bootstrapping)
RelKinds == {"r", "v", "u"}

Int4Att == [attisdropped |-> FALSE, attlen |-> 4, attalign |-> "i",
            maxlen |-> 4, attstorage |-> "p"]

VarAtt(maxlen, storage) ==
    [attisdropped |-> FALSE, attlen |-> -1, attalign |-> "i",
     maxlen |-> maxlen, attstorage |-> storage]

\* the tuple descriptors of the owners of the provisioning runs:
\* (int4, text) and (int4, varchar(50))
OwnerAtts ==
    { <<Int4Att, VarAtt(-1, "x")>>, <<Int4Att, VarAtt(50, "x")>> }

\* the index Oid declared together with a toast table Oid
ToastIndexOidFor(toastOid) == toastOid + 10

\* the <<toast table Oid, toast index Oid>> an entry point may be given:
\* none; a pair the static map knows, with and without the index Oid; a
\* pair it does not know
IdentityInputs ==
    { <<InvalidOid, InvalidOid>>,
      <<PgFileSpaceEntryToastTable, ToastIndexOidFor(PgFileSpaceEntryToastTable)>>,
      <<PgFileSpaceEntryToastTable, InvalidOid>>,
      <<PgResQueueToastTable + 1, ToastIndexOidFor(PgResQueueToastTable + 1)>> }

\* the toast table Oids of the static map of BootstrapToastTable
RegisteredToastOids ==
    { PgFileSpaceEntryToastTable, GpSegmentConfigToastTable,
      PgAttributeEncodingToastTable, PgTypeEncodingToastTable,
      PgPartitionEncodingToastTable, PgFileSystemToastTable,
      PgRemoteCredentialsToastTable, PgResQueueToastTable }

\* what the bootstrap script may declare: every pair of the static map, and
\* the pairs of IdentityInputs
BootstrapInputs ==
    IdentityInputs \cup {<<t, ToastIndexOidFor(t)>> : t \in RegisteredToastOids}

UsedOids ==
    Owners \cup {t.oid : t \in toastrels} \cup {t.reltype : t \in toastrels}
           \cup {x.oid : x \in indexes}

NoCall == [entry |-> "none", relOid |-> InvalidOid, toastOid |-> InvalidOid,
           toastIndexOid |-> InvalidOid, ret |-> "none", err |-> "none",
           steps |-> <<>>]

NoXact == [created |-> {}, undo |-> {}]

NotEvaluated == [relOid |-> InvalidOid, result |-> FALSE]

\* nothing removed by the open unit of work
NothingSaved == [toastrels |-> {}, indexes |-> {}, pg_depend |-> {}]

\* no owner has been dropped
NoDrop == [gone |-> {}, pending |-> {}, saved |-> NothingSaved]

NoInsert == [toastrelid |-> InvalidOid, row |-> <<>>]

\* the backends that run DDL concurrently
Backends == {1, 2}

\* a backend that runs no command
IdleBackend ==
    [pc |-> "idle", entry |-> "none", relOid |-> InvalidOid,
     toastOid |-> InvalidOid, toastIndexOid |-> InvalidOid, held |-> {},
     created |-> {}, undo |-> {}, ret |-> "none"]

NoBackends == [b \in Backends |-> IdleBackend]

\* the backends that write chunks concurrently
Writers == {1, 2}

\* no chunk row is stored
NoChunks ==
    [rows |-> EmptyBag, pending |-> [w \in Writers |-> NoInsert],
     last |-> "none"]

----------------------------------------------------------------------------
(* The collaborators create_toast_table calls.  Their code is outside      *)
(* toasting.c; they are modelled by their contract: a pre-assigned         *)
(* identifier is used when one is supplied, a fresh one is allocated       *)
(* otherwise.                                                              *)

\* heap_create_with_catalog(relname, PG_TOAST_NAMESPACE, ..., relid, ...,
\* tupdesc, RELKIND_TOASTVALUE, RELSTORAGE_HEAP, shared_relation, ...,
\* comptypeOid): the new relation's row, and the Oids in use afterwards
heap_create_with_catalog(relname, relid, tupdesc, shared_relation, comptypeOid, used) ==
    LET newoid == IF relid # InvalidOid THEN relid ELSE GetNewOid(used)
        used1 == used \cup {newoid}
        given == comptypeOid # NullPointer /\ comptypeOid # InvalidOid
        typid == IF given THEN comptypeOid ELSE GetNewOid(used1)
    IN [rel |-> [oid |-> newoid, relname |-> relname,
                 relnamespace |-> "PG_TOAST_NAMESPACE", relkind |-> "t",
                 relstorage |-> "h", relisshared |-> shared_relation,
                 reltype |-> typid, att |-> tupdesc],
        used |-> used1 \cup {typid}]

\* index_create(heapRelationId, indexRelationName, indexRelationId,
\* indexInfo, BTREE_AM_OID, ...): the new index
index_create(heapRelationId, indexRelationName, indexRelationId, indexInfo, used) ==
    LET newoid == IF indexRelationId # InvalidOid THEN indexRelationId
                  ELSE GetNewOid(used)
    IN [oid |-> newoid, relname |-> indexRelationName,
        indrelid |-> heapRelationId, relam |-> "BTREE_AM_OID",
        indkey |-> indexInfo.ii_KeyAttrNumbers,
        indisunique |-> indexInfo.ii_Unique]

\* the locks index_create leaves held on the heap and on the new index
IndexCreateLocks(toast_relid, toast_idxid) ==
    { <<toast_relid, "ShareLock">>, <<toast_idxid, "AccessExclusiveLock">> }

----------------------------------------------------------------------------
(* create_toast_table, toasting.c 193-412.                                 *)

\* mutant: the upgrade-mode exception is applied in every mode
IsAlreadyToasted_Never(rel) == FALSE

\* line 217: already toasted, and not in upgrade mode
IsAlreadyToasted(rel) ==
    ~gp_upgrade_mode /\ rel.reltoastrelid # InvalidOid

\* mutant: the upgrade-mode suppression is missing
UpgradeDeclinesToast_Never(toastOid) == FALSE

\* line 230: upgrade mode and no toast Oid supplied
UpgradeDeclinesToast(toastOid) ==
    gp_upgrade_mode /\ toastOid = InvalidOid

\* mutant: the test of the processing mode is inverted
SharedToastForbidden_Inverted(rel) ==
    rel.relisshared /\ bootstrap /\ ~gp_upgrade_mode

\* lines 239-243: a shared relation after initdb
SharedToastForbidden(rel) ==
    rel.relisshared /\ ~bootstrap /\ ~gp_upgrade_mode

\* mutant: the index is on chunk_id, chunk_seq but not unique
ToastIndexInfo_NotUnique ==
    [ii_NumIndexAttrs |-> 2, ii_KeyAttrNumbers |-> <<1, 2>>,
     ii_Unique |-> FALSE, ii_Concurrent |-> FALSE]

\* lines 323-332: the IndexInfo of the toast index
ToastIndexInfo ==
    [ii_NumIndexAttrs |-> 2, ii_KeyAttrNumbers |-> <<1, 2>>,
     ii_Unique |-> TRUE, ii_Concurrent |-> FALSE]

\* a return before anything is created
Declined(ret, err) ==
    [ret |-> ret, err |-> err, steps |-> <<>>, newrels |-> {},
     newidxs |-> {}, newdeps |-> {}, newlocks |-> {},
     toast_relid |-> InvalidOid]

\* mutant: the dependency is skipped in upgrade mode as it is in bootstrap
\* mode
CreateSequence_NoDepInUpgrade(relOid, rel, toastOid, toastIndexOid, comptypeOid, is_part_child) ==
    LET h == heap_create_with_catalog(toast_relname(relOid), toastOid,
                 ToastTupleDesc, rel.relisshared, comptypeOid, UsedOids)
        toast_relid == h.rel.oid
        x == index_create(toast_relid, toast_idxname(relOid), toastIndexOid,
                 ToastIndexInfo, h.used)
        toast_idxid == x.oid
        recorded == ~bootstrap /\ ~gp_upgrade_mode
    IN [ret |-> "true", err |-> "none",
        steps |-> <<"heap_create_with_catalog", "CommandCounterIncrement",
                    "index_create">>
                  \o (IF is_part_child
                      THEN <<"UnlockRelationOid", "UnlockRelationOid">>
                      ELSE <<>>)
                  \o (IF ~bootstrap THEN <<"caql_update_current">>
                      ELSE <<"heap_inplace_update">>)
                  \o (IF recorded THEN <<"recordDependencyOn">> ELSE <<>>)
                  \o <<"CommandCounterIncrement">>,
        newrels |-> {h.rel},
        newidxs |-> {x},
        newdeps |-> IF recorded
                    THEN {[objid |-> toast_relid, refobjid |-> relOid,
                           deptype |-> "DEPENDENCY_INTERNAL"]}
                    ELSE {},
        newlocks |-> IF is_part_child THEN {}
                     ELSE IndexCreateLocks(toast_relid, toast_idxid),
        toast_relid |-> toast_relid]

\* mutant: the function returns without the CommandCounterIncrement of
\* line 409
CreateSequence_NoFinalBarrier(relOid, rel, toastOid, toastIndexOid, comptypeOid, is_part_child) ==
    LET h == heap_create_with_catalog(toast_relname(relOid), toastOid,
                 ToastTupleDesc, rel.relisshared, comptypeOid, UsedOids)
        toast_relid == h.rel.oid
        x == index_create(toast_relid, toast_idxname(relOid), toastIndexOid,
                 ToastIndexInfo, h.used)
        toast_idxid == x.oid
    IN [ret |-> "true", err |-> "none",
        steps |-> <<"heap_create_with_catalog", "CommandCounterIncrement",
                    "index_create">>
                  \o (IF is_part_child
                      THEN <<"UnlockRelationOid", "UnlockRelationOid">>
                      ELSE <<>>)
                  \o (IF ~bootstrap THEN <<"caql_update_current">>
                      ELSE <<"heap_inplace_update">>)
                  \o (IF ~bootstrap THEN <<"recordDependencyOn">> ELSE <<>>),
        newrels |-> {h.rel},
        newidxs |-> {x},
        newdeps |-> IF ~bootstrap
                    THEN {[objid |-> toast_relid, refobjid |-> relOid,
                           deptype |-> "DEPENDENCY_INTERNAL"]}
                    ELSE {},
        newlocks |-> IF is_part_child THEN {}
                     ELSE IndexCreateLocks(toast_relid, toast_idxid),
        toast_relid |-> toast_relid]

\* mutant: the index is created before the CommandCounterIncrement of
\* line 309
CreateSequence_IndexBeforeBarrier(relOid, rel, toastOid, toastIndexOid, comptypeOid, is_part_child) ==
    LET h == heap_create_with_catalog(toast_relname(relOid), toastOid,
                 ToastTupleDesc, rel.relisshared, comptypeOid, UsedOids)
        toast_relid == h.rel.oid
        x == index_create(toast_relid, toast_idxname(relOid), toastIndexOid,
                 ToastIndexInfo, h.used)
        toast_idxid == x.oid
    IN [ret |-> "true", err |-> "none",
        steps |-> <<"heap_create_with_catalog", "index_create",
                    "CommandCounterIncrement">>
                  \o (IF is_part_child
                      THEN <<"UnlockRelationOid", "UnlockRelationOid">>
                      ELSE <<>>)
                  \o (IF ~bootstrap THEN <<"caql_update_current">>
                      ELSE <<"heap_inplace_update">>)
                  \o (IF ~bootstrap THEN <<"recordDependencyOn">> ELSE <<>>)
                  \o <<"CommandCounterIncrement">>,
        newrels |-> {h.rel},
        newidxs |-> {x},
        newdeps |-> IF ~bootstrap
                    THEN {[objid |-> toast_relid, refobjid |-> relOid,
                           deptype |-> "DEPENDENCY_INTERNAL"]}
                    ELSE {},
        newlocks |-> IF is_part_child THEN {}
                     ELSE IndexCreateLocks(toast_relid, toast_idxid),
        toast_relid |-> toast_relid]

\* mutant: the owner's row is overwritten in place in upgrade mode too
CreateSequence_InPlaceInUpgrade(relOid, rel, toastOid, toastIndexOid, comptypeOid, is_part_child) ==
    LET h == heap_create_with_catalog(toast_relname(relOid), toastOid,
                 ToastTupleDesc, rel.relisshared, comptypeOid, UsedOids)
        toast_relid == h.rel.oid
        x == index_create(toast_relid, toast_idxname(relOid), toastIndexOid,
                 ToastIndexInfo, h.used)
        toast_idxid == x.oid
    IN [ret |-> "true", err |-> "none",
        steps |-> <<"heap_create_with_catalog", "CommandCounterIncrement",
                    "index_create">>
                  \o (IF is_part_child
                      THEN <<"UnlockRelationOid", "UnlockRelationOid">>
                      ELSE <<>>)
                  \o (IF ~bootstrap /\ ~gp_upgrade_mode
                      THEN <<"caql_update_current">>
                      ELSE <<"heap_inplace_update">>)
                  \o (IF ~bootstrap THEN <<"recordDependencyOn">> ELSE <<>>)
                  \o <<"CommandCounterIncrement">>,
        newrels |-> {h.rel},
        newidxs |-> {x},
        newdeps |-> IF ~bootstrap
                    THEN {[objid |-> toast_relid, refobjid |-> relOid,
                           deptype |-> "DEPENDENCY_INTERNAL"]}
                    ELSE {},
        newlocks |-> IF is_part_child THEN {}
                     ELSE IndexCreateLocks(toast_relid, toast_idxid),
        toast_relid |-> toast_relid]

\* mutant: the locks on the new objects are released after the owner's
\* row is updated
CreateSequence_UnlockAfterUpdate(relOid, rel, toastOid, toastIndexOid, comptypeOid, is_part_child) ==
    LET h == heap_create_with_catalog(toast_relname(relOid), toastOid,
                 ToastTupleDesc, rel.relisshared, comptypeOid, UsedOids)
        toast_relid == h.rel.oid
        x == index_create(toast_relid, toast_idxname(relOid), toastIndexOid,
                 ToastIndexInfo, h.used)
        toast_idxid == x.oid
    IN [ret |-> "true", err |-> "none",
        steps |-> <<"heap_create_with_catalog", "CommandCounterIncrement",
                    "index_create">>
                  \o (IF ~bootstrap THEN <<"caql_update_current">>
                      ELSE <<"heap_inplace_update">>)
                  \o (IF is_part_child
                      THEN <<"UnlockRelationOid", "UnlockRelationOid">>
                      ELSE <<>>)
                  \o (IF ~bootstrap THEN <<"recordDependencyOn">> ELSE <<>>)
                  \o <<"CommandCounterIncrement">>,
        newrels |-> {h.rel},
        newidxs |-> {x},
        newdeps |-> IF ~bootstrap
                    THEN {[objid |-> toast_relid, refobjid |-> relOid,
                           deptype |-> "DEPENDENCY_INTERNAL"]}
                    ELSE {},
        newlocks |-> IF is_part_child THEN {}
                     ELSE IndexCreateLocks(toast_relid, toast_idxid),
        toast_relid |-> toast_relid]

\* mutant: the toast relation is created unshared whatever the owner is
CreateSequence_NeverShared(relOid, rel, toastOid, toastIndexOid, comptypeOid, is_part_child) ==
    LET h == heap_create_with_catalog(toast_relname(relOid), toastOid,
                 ToastTupleDesc, FALSE, comptypeOid, UsedOids)
        toast_relid == h.rel.oid
        x == index_create(toast_relid, toast_idxname(relOid), toastIndexOid,
                 ToastIndexInfo, h.used)
        toast_idxid == x.oid
    IN [ret |-> "true", err |-> "none",
        steps |-> <<"heap_create_with_catalog", "CommandCounterIncrement",
                    "index_create">>
                  \o (IF is_part_child
                      THEN <<"UnlockRelationOid", "UnlockRelationOid">>
                      ELSE <<>>)
                  \o (IF ~bootstrap THEN <<"caql_update_current">>
                      ELSE <<"heap_inplace_update">>)
                  \o (IF ~bootstrap THEN <<"recordDependencyOn">> ELSE <<>>)
                  \o <<"CommandCounterIncrement">>,
        newrels |-> {h.rel},
        newidxs |-> {x},
        newdeps |-> IF ~bootstrap
                    THEN {[objid |-> toast_relid, refobjid |-> relOid,
                           deptype |-> "DEPENDENCY_INTERNAL"]}
                    ELSE {},
        newlocks |-> IF is_part_child THEN {}
                     ELSE IndexCreateLocks(toast_relid, toast_idxid),
        toast_relid |-> toast_relid]

\* mutant: the owner's row is written before the index is created
CreateSequence_UpdateBeforeIndex(relOid, rel, toastOid, toastIndexOid, comptypeOid, is_part_child) ==
    LET h == heap_create_with_catalog(toast_relname(relOid), toastOid,
                 ToastTupleDesc, rel.relisshared, comptypeOid, UsedOids)
        toast_relid == h.rel.oid
        x == index_create(toast_relid, toast_idxname(relOid), toastIndexOid,
                 ToastIndexInfo, h.used)
        toast_idxid == x.oid
    IN [ret |-> "true", err |-> "none",
        steps |-> <<"heap_create_with_catalog", "CommandCounterIncrement">>
                  \o (IF ~bootstrap THEN <<"caql_update_current">>
                      ELSE <<"heap_inplace_update">>)
                  \o <<"index_create">>
                  \o (IF is_part_child
                      THEN <<"UnlockRelationOid", "UnlockRelationOid">>
                      ELSE <<>>)
                  \o (IF ~bootstrap THEN <<"recordDependencyOn">> ELSE <<>>)
                  \o <<"CommandCounterIncrement">>,
        newrels |-> {h.rel},
        newidxs |-> {x},
        newdeps |-> IF ~bootstrap
                    THEN {[objid |-> toast_relid, refobjid |-> relOid,
                           deptype |-> "DEPENDENCY_INTERNAL"]}
                    ELSE {},
        newlocks |-> IF is_part_child THEN {}
                     ELSE IndexCreateLocks(toast_relid, toast_idxid),
        toast_relid |-> toast_relid]

\* lines 286-411: the creation sequence
CreateSequence(relOid, rel, toastOid, toastIndexOid, comptypeOid, is_part_child) ==
    LET h == heap_create_with_catalog(toast_relname(relOid), toastOid,
                 ToastTupleDesc, rel.relisshared, comptypeOid, UsedOids)
        toast_relid == h.rel.oid
        x == index_create(toast_relid, toast_idxname(relOid), toastIndexOid,
                 ToastIndexInfo, h.used)
        toast_idxid == x.oid
    IN [ret |-> "true", err |-> "none",
        steps |-> <<"heap_create_with_catalog", "CommandCounterIncrement",
                    "index_create">>
                  \o (IF is_part_child
                      THEN <<"UnlockRelationOid", "UnlockRelationOid">>
                      ELSE <<>>)
                  \o (IF ~bootstrap THEN <<"caql_update_current">>
                      ELSE <<"heap_inplace_update">>)
                  \o (IF ~bootstrap THEN <<"recordDependencyOn">> ELSE <<>>)
                  \o <<"CommandCounterIncrement">>,
        newrels |-> {h.rel},
        newidxs |-> {x},
        newdeps |-> IF ~bootstrap
                    THEN {[objid |-> toast_relid, refobjid |-> relOid,
                           deptype |-> "DEPENDENCY_INTERNAL"]}
                    ELSE {},
        newlocks |-> IF is_part_child THEN {}
                     ELSE IndexCreateLocks(toast_relid, toast_idxid),
        toast_relid |-> toast_relid]

\* mutant: a pre-assigned toast Oid makes the function assume the table is
\* needed and skip the evaluator
create_toast_table_AssumeNeeded(relOid, toastOid, toastIndexOid, comptypeOid, is_part_child) ==
    LET rel == pg_class[relOid] IN
    IF IsAlreadyToasted(rel) THEN Declined("false", "none")
    ELSE IF toastOid = InvalidOid /\ ~RelationNeedsToastTable(rel)
         THEN Declined("false", "none")
    ELSE IF UpgradeDeclinesToast(toastOid) THEN Declined("false", "none")
    ELSE IF SharedToastForbidden(rel)
         THEN Declined("none", "UnsupportedSharedToast")
    ELSE CreateSequence(relOid, rel, toastOid, toastIndexOid, comptypeOid,
                        is_part_child)

\* mutant: the test for a shared relation is made after the creation
\* sequence
create_toast_table_SharedTestLast(relOid, toastOid, toastIndexOid, comptypeOid, is_part_child) ==
    LET rel == pg_class[relOid] IN
    IF IsAlreadyToasted(rel) THEN Declined("false", "none")
    ELSE IF ~RelationNeedsToastTable(rel) THEN Declined("false", "none")
    ELSE IF UpgradeDeclinesToast(toastOid) THEN Declined("false", "none")
    ELSE IF SharedToastForbidden(rel)
         THEN [CreateSequence(relOid, rel, toastOid, toastIndexOid,
                              comptypeOid, is_part_child)
                  EXCEPT !.ret = "none", !.err = "UnsupportedSharedToast"]
    ELSE CreateSequence(relOid, rel, toastOid, toastIndexOid, comptypeOid,
                        is_part_child)

\* the whole function: what it returns and what it changes
create_toast_table(relOid, toastOid, toastIndexOid, comptypeOid, is_part_child) ==
    LET rel == pg_class[relOid] IN
    IF IsAlreadyToasted(rel) THEN Declined("false", "none")
    ELSE IF ~RelationNeedsToastTable(rel) THEN Declined("false", "none")
    ELSE IF UpgradeDeclinesToast(toastOid) THEN Declined("false", "none")
    ELSE IF SharedToastForbidden(rel)
         THEN Declined("none", "UnsupportedSharedToast")
    ELSE CreateSequence(relOid, rel, toastOid, toastIndexOid, comptypeOid,
                        is_part_child)

----------------------------------------------------------------------------
(* The unit of work around the entry points.  Outside bootstrap mode the   *)
(* catalog changes are transactional: an ERROR aborts the enclosing        *)
(* transaction, which undoes them and releases its locks.  In bootstrap    *)
(* mode there is nothing to undo with, and an ERROR ends the bootstrap     *)
(* process.                                                                *)

\* the bootstrap process has died on an ERROR
Halted == bootstrap /\ call.err # "none"

\* no unit of work is open: each entry point runs as the command of its own
Idle == locks = {} /\ xact = NoXact /\ call = NoCall

\* the catalog with the current unit of work undone
RolledBack ==
    [toastrels |-> {t \in toastrels : t.oid \notin xact.created}
                     \cup dropped.saved.toastrels,
     indexes |-> {x \in indexes : x.oid \notin xact.created}
                   \cup dropped.saved.indexes,
     pg_depend |-> {d \in pg_depend : d.objid \notin xact.created}
                     \cup dropped.saved.pg_depend,
     pg_class |-> [o \in Owners |->
                     IF \E u \in xact.undo : u[1] = o
                     THEN [pg_class[o] EXCEPT !.reltoastrelid =
                              (CHOOSE u \in xact.undo : u[1] = o)[2]]
                     ELSE pg_class[o]]]

\* ereport(ERROR)/elog(ERROR) out of an entry point; c is the call so far
Raise(c, ownerLocks, err) ==
    /\ call' = [c EXCEPT !.err = err]
    /\ IF bootstrap
       THEN /\ locks' = locks \cup ownerLocks
            /\ UNCHANGED <<toastrels, indexes, pg_depend, pg_class, xact>>
       ELSE /\ toastrels' = RolledBack.toastrels
            /\ indexes' = RolledBack.indexes
            /\ pg_depend' = RolledBack.pg_depend
            /\ pg_class' = RolledBack.pg_class
            /\ locks' = {}
            /\ xact' = NoXact
    /\ UNCHANGED <<bootstrap, gp_upgrade_mode, needs, dropped, chunks, backends, names, fs, pxf>>

\* mutant: the owner's row is overwritten in place in every mode, so that
\* the unit of work has nothing to undo the update with
Return_InPlace(c, ownerLocks, out) ==
    /\ toastrels' = toastrels \cup out.newrels
    /\ indexes' = indexes \cup out.newidxs
    /\ pg_depend' = pg_depend \cup out.newdeps
    /\ pg_class' = IF out.ret = "true"
                   THEN [pg_class EXCEPT ![c.relOid].reltoastrelid =
                                             out.toast_relid]
                   ELSE pg_class
    /\ locks' = locks \cup ownerLocks \cup out.newlocks
    /\ xact' = IF bootstrap \/ out.ret # "true" THEN xact
               ELSE [created |-> xact.created
                                   \cup {t.oid : t \in out.newrels}
                                   \cup {x.oid : x \in out.newidxs},
                     undo |-> xact.undo]
    /\ call' = [c EXCEPT !.ret = out.ret, !.steps = out.steps]
    /\ UNCHANGED <<bootstrap, gp_upgrade_mode, needs, dropped, chunks, backends, names, fs, pxf>>

\* mutant: the owner's row is stored with toast_relid whatever
\* create_toast_table did, also the InvalidOid of a declined call
Return_AlwaysStores(c, ownerLocks, out) ==
    /\ toastrels' = toastrels \cup out.newrels
    /\ indexes' = indexes \cup out.newidxs
    /\ pg_depend' = pg_depend \cup out.newdeps
    /\ pg_class' = [pg_class EXCEPT ![c.relOid].reltoastrelid =
                                       out.toast_relid]
    /\ locks' = locks \cup ownerLocks \cup out.newlocks
    /\ xact' = IF bootstrap \/ out.ret # "true" THEN xact
               ELSE [created |-> xact.created
                                   \cup {t.oid : t \in out.newrels}
                                   \cup {x.oid : x \in out.newidxs},
                     undo |-> IF \E u \in xact.undo : u[1] = c.relOid
                              THEN xact.undo
                              ELSE xact.undo \cup
                                   {<<c.relOid, pg_class[c.relOid].reltoastrelid>>}]
    /\ call' = [c EXCEPT !.ret = out.ret, !.steps = out.steps]
    /\ UNCHANGED <<bootstrap, gp_upgrade_mode, needs, dropped, chunks, backends, names, fs, pxf>>

\* an entry point returns normally after create_toast_table gave out
Return(c, ownerLocks, out) ==
    /\ toastrels' = toastrels \cup out.newrels
    /\ indexes' = indexes \cup out.newidxs
    /\ pg_depend' = pg_depend \cup out.newdeps
    /\ pg_class' = IF out.ret = "true"
                   THEN [pg_class EXCEPT ![c.relOid].reltoastrelid =
                                             out.toast_relid]
                   ELSE pg_class
    /\ locks' = locks \cup ownerLocks \cup out.newlocks
    /\ xact' = IF bootstrap \/ out.ret # "true" THEN xact
               ELSE [created |-> xact.created
                                   \cup {t.oid : t \in out.newrels}
                                   \cup {x.oid : x \in out.newidxs},
                     undo |-> IF \E u \in xact.undo : u[1] = c.relOid
                              THEN xact.undo
                              ELSE xact.undo \cup
                                   {<<c.relOid, pg_class[c.relOid].reltoastrelid>>}]
    /\ call' = [c EXCEPT !.ret = out.ret, !.steps = out.steps]
    /\ UNCHANGED <<bootstrap, gp_upgrade_mode, needs, dropped, chunks, backends, names, fs, pxf>>

\* the record of an invocation that has not returned yet
Invocation(entry, relOid, toastOid, toastIndexOid) ==
    [entry |-> entry, relOid |-> relOid, toastOid |-> toastOid,
     toastIndexOid |-> toastIndexOid, ret |-> "none", err |-> "none",
     steps |-> <<>>]

\* a pre-assigned identifier handed to an entry point is one not in use
Unused(oid) == oid \in {InvalidOid, NullPointer} \/ oid \notin UsedOids

----------------------------------------------------------------------------
(* The entry points.                                                       *)

\* mutant: the owner is opened with NoLock for a partition child, as
\* AlterTableCreateToastTableWithOid opens it
AlterTableCreateToastTable_LockIfLong(relOid, is_part_child) ==
    LET out == create_toast_table(relOid, InvalidOid, InvalidOid,
                                  NullPointer, is_part_child)
        ownerLocks == IF is_part_child THEN {}
                      ELSE {<<relOid, "AccessExclusiveLock">>}
        c == Invocation("AlterTableCreateToastTable", relOid, InvalidOid,
                        InvalidOid)
    IN /\ Idle
       /\ IF out.err # "none"
          THEN Raise(c, ownerLocks, out.err)
          ELSE Return(c, ownerLocks, out)

\* toasting.c 52-69; is_part_child is !rel_needs_long_lock(relOid)
AlterTableCreateToastTable(relOid, is_part_child) ==
    LET out == create_toast_table(relOid, InvalidOid, InvalidOid,
                                  NullPointer, is_part_child)
        ownerLocks == {<<relOid, "AccessExclusiveLock">>}
        c == Invocation("AlterTableCreateToastTable", relOid, InvalidOid,
                        InvalidOid)
    IN /\ Idle
       /\ IF out.err # "none"
          THEN Raise(c, ownerLocks, out.err)
          ELSE Return(c, ownerLocks, out)

\* toasting.c 71-94
AlterTableCreateToastTableWithOid(relOid, newOid, newIndexOid, comptypeOid, is_part_child) ==
    LET out == create_toast_table(relOid, newOid, newIndexOid, comptypeOid,
                                  is_part_child)
        ownerLocks == IF is_part_child THEN {}
                      ELSE {<<relOid, "AccessExclusiveLock">>}
        c == Invocation("AlterTableCreateToastTableWithOid", relOid, newOid,
                        newIndexOid)
    IN /\ Idle
       /\ Unused(newOid) /\ Unused(newIndexOid) /\ Unused(comptypeOid)
       /\ IF out.err # "none"
          THEN Raise(c, ownerLocks, out.err)
          ELSE Return(c, ownerLocks, out)

\* mutant: the result of create_toast_table is discarded, as the ALTER
\* TABLE entry points do
BootstrapToastTable_IgnoresResult(relOid, toastOid, toastIndexOid) ==
    LET typid == BootstrapToastTypid(toastOid)
        out == create_toast_table(relOid, toastOid, toastIndexOid, typid,
                                  FALSE)
        ownerLocks == {<<relOid, "AccessExclusiveLock">>}
        c == Invocation("BootstrapToastTable", relOid, toastOid,
                        toastIndexOid)
    IN /\ Idle
       /\ bootstrap
       /\ Unused(toastOid) /\ Unused(toastIndexOid) /\ Unused(typid)
       /\ IF pg_class[relOid].relkind \notin {"r", "u"}
          THEN Raise(c, ownerLocks, "WrongObjectKind")
          ELSE IF out.err # "none"
          THEN Raise(c, ownerLocks, out.err)
          ELSE Return(c, ownerLocks, out)

\* mutant: the test of relkind is missing
BootstrapToastTable_NoKindCheck(relOid, toastOid, toastIndexOid) ==
    LET typid == BootstrapToastTypid(toastOid)
        out == create_toast_table(relOid, toastOid, toastIndexOid, typid,
                                  FALSE)
        ownerLocks == {<<relOid, "AccessExclusiveLock">>}
        c == Invocation("BootstrapToastTable", relOid, toastOid,
                        toastIndexOid)
    IN /\ Idle
       /\ bootstrap
       /\ Unused(toastOid) /\ Unused(toastIndexOid) /\ Unused(typid)
       /\ IF out.err # "none"
          THEN Raise(c, ownerLocks, out.err)
          ELSE IF out.ret = "false"
          THEN Raise([c EXCEPT !.ret = "false"], ownerLocks,
                     "DoesNotRequireToast")
          ELSE Return(c, ownerLocks, out)

\* toasting.c 102-183; relOid is the relation relName resolves to
BootstrapToastTable(relOid, toastOid, toastIndexOid) ==
    LET typid == BootstrapToastTypid(toastOid)
        out == create_toast_table(relOid, toastOid, toastIndexOid, typid,
                                  FALSE)
        ownerLocks == {<<relOid, "AccessExclusiveLock">>}
        c == Invocation("BootstrapToastTable", relOid, toastOid,
                        toastIndexOid)
    IN /\ Idle
       /\ bootstrap
       /\ Unused(toastOid) /\ Unused(toastIndexOid) /\ Unused(typid)
       /\ IF pg_class[relOid].relkind \notin {"r", "u"}
          THEN Raise(c, ownerLocks, "WrongObjectKind")
          ELSE IF out.err # "none"
          THEN Raise(c, ownerLocks, out.err)
          ELSE IF out.ret = "false"
          THEN Raise([c EXCEPT !.ret = "false"], ownerLocks,
                     "DoesNotRequireToast")
          ELSE Return(c, ownerLocks, out)

\* initdb is over: the bootstrap process ends and normal processing begins
EndBootstrap ==
    /\ bootstrap
    /\ Idle
    /\ bootstrap' = FALSE
    /\ UNCHANGED <<gp_upgrade_mode, pg_class, toastrels, indexes, pg_depend,
                   locks, xact, call, needs, dropped, chunks, backends, names, fs, pxf>>

\* the unit of work ends by commit
CommitTransaction ==
    /\ ~Halted
    /\ ~Idle
    /\ locks' = {}
    /\ xact' = NoXact
    /\ call' = NoCall
    /\ dropped' = [gone |-> dropped.gone \cup dropped.pending, pending |-> {},
                   saved |-> NothingSaved]
    /\ UNCHANGED <<bootstrap, gp_upgrade_mode, pg_class, toastrels, indexes,
                   pg_depend, needs, chunks, backends, names, fs, pxf>>

\* the unit of work ends by abort
AbortTransaction ==
    /\ ~bootstrap
    /\ ~Idle
    /\ toastrels' = RolledBack.toastrels
    /\ indexes' = RolledBack.indexes
    /\ pg_depend' = RolledBack.pg_depend
    /\ pg_class' = RolledBack.pg_class
    /\ locks' = {}
    /\ xact' = NoXact
    /\ call' = NoCall
    /\ dropped' = [dropped EXCEPT !.pending = {}, !.saved = NothingSaved]
    /\ UNCHANGED <<bootstrap, gp_upgrade_mode, needs, chunks, backends, names, fs, pxf>>

----------------------------------------------------------------------------
(* An ERROR out of the creation sequence: the cache lookup of line 369, or *)
(* an ERROR of a collaborator.  The sequence has run n of its steps when   *)
(* the ERROR is raised; what these steps did is undone with the enclosing  *)
(* transaction, or stays when there is none.                               *)

\* step name is among the first n steps of the sequence out
StepDone(out, n, name) == \E i \in 1..n : out.steps[i] = name

\* the catalog cat with the creations and the transactional updates of the
\* unit of work x undone
RollBackOf(cat, x) ==
    [toastrels |-> {t \in cat.toastrels : t.oid \notin x.created},
     indexes |-> {i \in cat.indexes : i.oid \notin x.created},
     pg_depend |-> {d \in cat.pg_depend : d.objid \notin x.created},
     pg_class |-> [o \in Owners |->
                     IF \E u \in x.undo : u[1] = o
                     THEN [cat.pg_class[o] EXCEPT !.reltoastrelid =
                              (CHOOSE u \in x.undo : u[1] = o)[2]]
                     ELSE cat.pg_class[o]]]

\* AlterTableCreateToastTableWithOid whose create_toast_table raises an
\* ERROR after n steps of the creation sequence
CreateSequenceError(relOid, newOid, newIndexOid, is_part_child, n) ==
    LET out == create_toast_table(relOid, newOid, newIndexOid, NullPointer,
                                  is_part_child)
        ownerLocks == IF is_part_child THEN {}
                      ELSE {<<relOid, "AccessExclusiveLock">>}
        c == Invocation("AlterTableCreateToastTableWithOid", relOid, newOid,
                        newIndexOid)
        rels == IF StepDone(out, n, "heap_create_with_catalog")
                THEN out.newrels ELSE {}
        idxs == IF StepDone(out, n, "index_create") THEN out.newidxs ELSE {}
        deps == IF StepDone(out, n, "recordDependencyOn")
                THEN out.newdeps ELSE {}
        updated == StepDone(out, n, "caql_update_current")
        inplace == StepDone(out, n, "heap_inplace_update")
        cat == [toastrels |-> toastrels \cup rels,
                indexes |-> indexes \cup idxs,
                pg_depend |-> pg_depend \cup deps,
                pg_class |-> IF updated \/ inplace
                             THEN [pg_class EXCEPT ![relOid].reltoastrelid =
                                                       out.toast_relid]
                             ELSE pg_class]
        x == [created |-> {t.oid : t \in rels} \cup {i.oid : i \in idxs},
              undo |-> IF updated
                       THEN {<<relOid, pg_class[relOid].reltoastrelid>>}
                       ELSE {}]
        after == IF bootstrap THEN cat ELSE RollBackOf(cat, x)
    IN /\ Idle
       /\ Unused(newOid) /\ Unused(newIndexOid)
       /\ out.ret = "true"
       /\ n \in 0..(Len(out.steps) - 1)
       /\ toastrels' = after.toastrels
       /\ indexes' = after.indexes
       /\ pg_depend' = after.pg_depend
       /\ pg_class' = after.pg_class
       /\ locks' = IF bootstrap
                   THEN ownerLocks \cup
                        (IF idxs = {} \/ StepDone(out, n, "UnlockRelationOid")
                         THEN {} ELSE out.newlocks)
                   ELSE {}
       /\ xact' = NoXact
       /\ call' = [c EXCEPT !.err = "ERROR", !.steps = SubSeq(out.steps, 1, n)]
       /\ UNCHANGED <<bootstrap, gp_upgrade_mode, needs, dropped, chunks, backends, names, fs, pxf>>

----------------------------------------------------------------------------
(* Concurrent ALTER TABLE.  Outside bootstrap mode several backends run    *)
(* the ALTER TABLE entry points at once, each in its own transaction, on   *)
(* the one catalog.  The lock manager and the callers are outside          *)
(* toasting.c; they are modelled by what the design text says: an          *)
(* exclusive lock is granted when no other backend holds it and is kept    *)
(* until the transaction ends, and the caller of a command on a partition  *)
(* child holds the lock on the parent.  A backend runs create_toast_table  *)
(* in two steps, the tests of lines 214-243 and the creation sequence of   *)
(* lines 245-411, so that backends no lock keeps apart may interleave.     *)

\* the owners that are partition children: !rel_needs_long_lock(relOid)
PartChildren == {1}

\* the lock the caller of a command on partition child o holds
ParentLock(o) == <<o, "AccessExclusiveLock on the parent">>

\* mutant: no entry point locks the owner
EntryLocks_NoLock(entry, relOid, is_part_child) == {}

\* the lock heap_open takes on the owner, lines 62 and 85-88
EntryLocks(entry, relOid, is_part_child) ==
    IF entry = "AlterTableCreateToastTableWithOid" /\ is_part_child
    THEN {}
    ELSE {<<relOid, "AccessExclusiveLock">>}

\* the locks backends other than b hold
HeldByOthers(b) == UNION {backends[c].held : c \in Backends \ {b}}

\* backend b starts an ALTER TABLE entry point on owner o: its caller locks
\* the parent of a partition child, and heap_open waits for the owner's lock
BackendOpen(b, entry, o, newOid, newIndexOid) ==
    LET ipc == o \in PartChildren
        wanted == (IF ipc THEN {ParentLock(o)} ELSE {})
                  \cup EntryLocks(entry, o, ipc)
    IN /\ ~bootstrap
       /\ backends[b].pc = "idle"
       /\ entry = "AlterTableCreateToastTable" =>
             newOid = InvalidOid /\ newIndexOid = InvalidOid
       /\ Unused(newOid) /\ Unused(newIndexOid)
       /\ wanted \cap HeldByOthers(b) = {}
       /\ backends' = [backends EXCEPT ![b] =
                         [IdleBackend EXCEPT !.pc = "opened", !.entry = entry,
                                             !.relOid = o, !.toastOid = newOid,
                                             !.toastIndexOid = newIndexOid,
                                             !.held = wanted]]
       /\ UNCHANGED <<bootstrap, gp_upgrade_mode, pg_class, toastrels, indexes,
                      pg_depend, locks, xact, call, needs, dropped, chunks, names, fs, pxf>>

\* backend b runs the tests of create_toast_table, lines 214-243
BackendTest(b) ==
    LET me == backends[b]
        out == create_toast_table(me.relOid, me.toastOid, me.toastIndexOid,
                                  NullPointer, me.relOid \in PartChildren)
    IN /\ me.pc = "opened"
       /\ backends' = [backends EXCEPT ![b] =
                         IF out.err # "none"
                         THEN [IdleBackend EXCEPT !.ret = out.err]
                         ELSE IF out.ret = "false"
                         THEN [me EXCEPT !.pc = "returned", !.ret = "false"]
                         ELSE [me EXCEPT !.pc = "creating"]]
       /\ UNCHANGED <<bootstrap, gp_upgrade_mode, pg_class, toastrels, indexes,
                      pg_depend, locks, xact, call, needs, dropped, chunks, names, fs, pxf>>

\* backend b runs the creation sequence, lines 245-411, and returns
BackendCreate(b) ==
    LET me == backends[b]
        out == CreateSequence(me.relOid, pg_class[me.relOid], me.toastOid,
                              me.toastIndexOid, NullPointer,
                              me.relOid \in PartChildren)
    IN /\ me.pc = "creating"
       /\ toastrels' = toastrels \cup out.newrels
       /\ indexes' = indexes \cup out.newidxs
       /\ pg_depend' = pg_depend \cup out.newdeps
       /\ pg_class' = [pg_class EXCEPT ![me.relOid].reltoastrelid =
                                          out.toast_relid]
       /\ backends' = [backends EXCEPT ![b] =
                         [me EXCEPT !.pc = "returned", !.ret = "true",
                                    !.held = me.held \cup out.newlocks,
                                    !.created = {t.oid : t \in out.newrels}
                                                \cup {x.oid : x \in out.newidxs},
                                    !.undo = {<<me.relOid,
                                                pg_class[me.relOid].reltoastrelid>>}]]
       /\ UNCHANGED <<bootstrap, gp_upgrade_mode, locks, xact, call, needs,
                      dropped, chunks, names, fs, pxf>>

\* the transaction of backend b ends, by commit or by abort
BackendEnd(b, commit) ==
    LET me == backends[b]
        after == IF commit
                 THEN [toastrels |-> toastrels, indexes |-> indexes,
                       pg_depend |-> pg_depend, pg_class |-> pg_class]
                 ELSE RollBackOf([toastrels |-> toastrels, indexes |-> indexes,
                                  pg_depend |-> pg_depend, pg_class |-> pg_class],
                                 [created |-> me.created, undo |-> me.undo])
    IN /\ me.pc = "returned"
       /\ toastrels' = after.toastrels
       /\ indexes' = after.indexes
       /\ pg_depend' = after.pg_depend
       /\ pg_class' = after.pg_class
       /\ backends' = [backends EXCEPT ![b] =
                         [IdleBackend EXCEPT !.ret = IF commit THEN "committed"
                                                    ELSE "aborted"]]
       /\ UNCHANGED <<bootstrap, gp_upgrade_mode, locks, xact, call, needs,
                      dropped, chunks, names, fs, pxf>>

----------------------------------------------------------------------------
(* Dropping an owner.  The code is outside toasting.c; it is modelled by   *)
(* what the design text says of the dependency collaborator: it deletes,   *)
(* in cascade, what has an INTERNAL edge to the dropped object, and a      *)
(* relation goes with its indexes.  The tables of the bootstrap script,    *)
(* known here by a toast table whose Oid is of the static map, are the     *)
(* system catalogs: they are pinned and DROP TABLE refuses them.           *)

\* the toast relations that depend on owner o
DependentsOf(o) ==
    {t \in toastrels :
        \E d \in pg_depend : /\ d.objid = t.oid
                             /\ d.refobjid = o
                             /\ d.deptype = "DEPENDENCY_INTERNAL"}

\* DROP TABLE o as the command of a unit of work
DropOwner(o) ==
    LET gonerels == DependentsOf(o)
        goneidxs == {x \in indexes : \E t \in gonerels : x.indrelid = t.oid}
        gonedeps == {d \in pg_depend : d.refobjid = o}
    IN /\ Idle
       /\ ~bootstrap
       /\ o \notin dropped.gone
       /\ \A t \in toastrels :
             t.relname = toast_relname(o) => t.oid \notin RegisteredToastOids
       /\ toastrels' = toastrels \ gonerels
       /\ indexes' = indexes \ goneidxs
       /\ pg_depend' = pg_depend \ gonedeps
       /\ dropped' = [gone |-> dropped.gone, pending |-> {o},
                      saved |-> [toastrels |-> gonerels, indexes |-> goneidxs,
                                 pg_depend |-> gonedeps]]
       /\ locks' = {<<o, "AccessExclusiveLock">>}
       /\ call' = Invocation("DropOwner", o, InvalidOid, InvalidOid)
       /\ UNCHANGED <<bootstrap, gp_upgrade_mode, pg_class, xact, needs, chunks, backends, names, fs, pxf>>

----------------------------------------------------------------------------
(* Writing chunks.  The code of the value codec and of the btree is        *)
(* outside toasting.c; it is modelled by what the design text says: a      *)
(* writer takes no lock besides the ordinary ones, puts the chunk row into *)
(* the toast relation and then enters it into the relation's indexes,      *)
(* where a unique index rejects a row whose key columns equal those of a   *)
(* row already entered.  The check and the entry are one step of the       *)
(* index; a rejected row is not stored.                                    *)

ChunkIds == {1, 2}
ChunkSeqs == {0, 1}
ChunkData == {"a", "b"}

\* the key of chunk row tuple under the index x
IndexKey(x, tuple) == [i \in DOMAIN x.indkey |-> tuple[x.indkey[i]]]

\* the unique indexes of relation toastrelid that already hold the key of
\* tuple
UniqueConflicts(toastrelid, tuple) ==
    {x \in indexes :
        /\ x.indrelid = toastrelid
        /\ x.indisunique
        /\ \E r \in BagToSet(chunks.rows) :
              /\ r.toastrelid = toastrelid
              /\ IndexKey(x, r.row) = IndexKey(x, tuple)}

\* writer w puts the chunk <<chunk_id, chunk_seq, chunk_data>> into the
\* committed toast relation t
InsertChunkHeap(w, t, chunk_id, chunk_seq, chunk_data) ==
    /\ t \in toastrels
    /\ t.oid \notin xact.created
    /\ chunks.pending[w] = NoInsert
    /\ BagCardinality(chunks.rows)
          + Cardinality({v \in Writers : chunks.pending[v] # NoInsert})
          < MaxChunkRows
    /\ chunks' = [chunks EXCEPT !.pending[w] =
                     [toastrelid |-> t.oid,
                      row |-> <<chunk_id, chunk_seq, chunk_data>>]]
    /\ UNCHANGED <<bootstrap, gp_upgrade_mode, pg_class, toastrels, indexes,
                   pg_depend, locks, xact, call, needs, dropped,
                   backends, names, fs, pxf>>

\* writer w enters its row into the indexes of the toast relation
InsertChunkIndex(w) ==
    LET p == chunks.pending[w]
        rejected == UniqueConflicts(p.toastrelid, p.row) # {}
    IN /\ p # NoInsert
       /\ chunks' = [rows |-> IF rejected THEN chunks.rows
                              ELSE chunks.rows (+) SetToBag({p}),
                     pending |-> [chunks.pending EXCEPT ![w] = NoInsert],
                     last |-> IF rejected THEN "rejected" ELSE "inserted"]
       /\ UNCHANGED <<bootstrap, gp_upgrade_mode, pg_class, toastrels, indexes,
                      pg_depend, locks, xact, call, needs, dropped,
                   backends, names, fs, pxf>>

----------------------------------------------------------------------------
(* gpfshdfs.c: the gpfs_hdfs_* functions the filesystem manager calls.     *)
(* A call gets its arguments from the call context (fcinfo->context) and   *)
(* stores its results there.  A pointer is "NULL" or "valid".  libhdfs is  *)
(* outside the file; a libhdfs call is modelled by the outcomes its caller *)
(* tests: a result that is NULL/-1 or not, and the errno it leaves.        *)

Pointers == {"NULL", "valid"}

\* char *path: NULL, the empty string, a path
Paths == {"NULL", "", "/path"}

\* an int, short or int64_t argument: negative, zero, positive
Numbers == {-1, 0, 1}

\* what errno holds after a libhdfs call
Errnos == {"EBUSY", "EINVAL", "EIO"}

\* int numRetry = 300
NumRetry == 300

\* const long maxSleep = 1 * 1000 * 1000, microseconds
MaxSleep == 1000000

\* sleepTime = sleepTime * 2 + 10000
SleepStep == 10000

\* a call context whose every argument passes the tests
ValidContext ==
    [hdfs |-> "valid", hFile |-> "valid", path |-> "/path", host |-> "valid",
     port |-> 0, token |-> "NULL", ccname |-> "NULL", databuf |-> "valid", buflen |-> 1, pos |-> 0,
     filebufsize |-> 0, filerep |-> 0, fileblksize |-> 0,
     fileinfo |-> "valid", fileinfonum |-> 0]

\* the functions that test their arguments, call one libhdfs function and
\* return its result, and that function
Wrapped ==
    [gpfs_hdfs_disconnect |-> "hdfsDisconnect",
     gpfs_hdfs_sync |-> "hdfsSync",
     gpfs_hdfs_closefile |-> "hdfsCloseFile",
     gpfs_hdfs_createdirectory |-> "hdfsCreateDirectory",
     gpfs_hdfs_delete |-> "hdfsDelete",
     gpfs_hdfs_chmod |-> "hdfsChmod",
     gpfs_hdfs_read |-> "hdfsRead",
     gpfs_hdfs_write |-> "hdfsWrite",
     gpfs_hdfs_seek |-> "hdfsSeek",
     gpfs_hdfs_tell |-> "hdfsTell",
     gpfs_hdfs_truncate |-> "hdfsTruncate"]

\* the tests an entry point makes on its arguments, after the test of
\* CALLED_AS_GPFILESYSTEM: TRUE when one of them fails
ArgumentInvalid(entry, c) ==
    CASE entry = "gpfs_hdfs_connect" -> c.host = "NULL" \/ c.port < 0
      [] entry = "gpfs_hdfs_disconnect" -> c.hdfs = "NULL"
      [] entry = "gpfs_hdfs_openfile" ->
            \/ c.hdfs = "NULL"
            \/ c.path \in {"NULL", ""}
            \/ c.filebufsize < 0 \/ c.filerep < 0 \/ c.fileblksize < 0
      [] entry \in {"gpfs_hdfs_sync", "gpfs_hdfs_closefile",
                    "gpfs_hdfs_tell"} ->
            c.hdfs = "NULL" \/ c.hFile = "NULL"
      [] entry \in {"gpfs_hdfs_createdirectory", "gpfs_hdfs_delete",
                    "gpfs_hdfs_chmod", "gpfs_hdfs_getpathinfo"} ->
            c.hdfs = "NULL" \/ c.path = "NULL"
      [] entry \in {"gpfs_hdfs_read", "gpfs_hdfs_write"} ->
            \/ c.hdfs = "NULL" \/ c.hFile = "NULL"
            \/ c.databuf = "NULL" \/ c.buflen < 0
      [] entry = "gpfs_hdfs_seek" ->
            c.hdfs = "NULL" \/ c.hFile = "NULL" \/ c.pos < 0
      [] entry = "gpfs_hdfs_truncate" ->
            c.hdfs = "NULL" \/ c.path = "NULL" \/ c.pos < 0
      [] entry = "gpfs_hdfs_freefileinfo" ->
            c.fileinfo = "NULL" \/ c.fileinfonum < 0

\* the call contexts an entry point is called with: every value of the
\* arguments it tests, valid ones for the rest
FsContexts(entry) ==
    CASE entry = "gpfs_hdfs_connect" ->
            {[ValidContext EXCEPT !.host = h, !.port = n, !.token = t,
                                  !.ccname = k, !.hdfs = "NULL"] :
                h \in Pointers, n \in Numbers, t \in Pointers,
                k \in Pointers}
      [] entry = "gpfs_hdfs_disconnect" ->
            {[ValidContext EXCEPT !.hdfs = h] : h \in Pointers}
      [] entry = "gpfs_hdfs_openfile" ->
            {[ValidContext EXCEPT !.hdfs = h, !.path = p, !.filebufsize = b,
                                  !.filerep = r, !.fileblksize = k,
                                  !.hFile = "NULL"] :
                h \in Pointers, p \in Paths, b \in Numbers, r \in Numbers,
                k \in Numbers}
      [] entry \in {"gpfs_hdfs_sync", "gpfs_hdfs_closefile",
                    "gpfs_hdfs_tell"} ->
            {[ValidContext EXCEPT !.hdfs = h, !.hFile = f] :
                h \in Pointers, f \in Pointers}
      [] entry \in {"gpfs_hdfs_createdirectory", "gpfs_hdfs_delete",
                    "gpfs_hdfs_chmod", "gpfs_hdfs_getpathinfo"} ->
            {[ValidContext EXCEPT !.hdfs = h, !.path = p] :
                h \in Pointers, p \in Paths}
      [] entry \in {"gpfs_hdfs_read", "gpfs_hdfs_write"} ->
            {[ValidContext EXCEPT !.hdfs = h, !.hFile = f, !.databuf = d,
                                  !.buflen = n] :
                h \in Pointers, f \in Pointers, d \in Pointers,
                n \in Numbers}
      [] entry = "gpfs_hdfs_seek" ->
            {[ValidContext EXCEPT !.hdfs = h, !.hFile = f, !.pos = n] :
                h \in Pointers, f \in Pointers, n \in Numbers}
      [] entry = "gpfs_hdfs_truncate" ->
            {[ValidContext EXCEPT !.hdfs = h, !.path = p, !.pos = n] :
                h \in Pointers, p \in Paths, n \in Numbers}
      [] entry = "gpfs_hdfs_freefileinfo" ->
            {[ValidContext EXCEPT !.fileinfo = f, !.fileinfonum = n] :
                f \in Pointers, n \in Numbers}

\* no gpfs_hdfs_* function has been called
NoFsCall ==
    [pc |-> "idle", entry |-> "none", manager |-> TRUE,
     given |-> ValidContext, context |-> ValidContext, retval |-> 0,
     errno |-> "EIO", lib |-> <<>>, numRetry |-> 0, sleepTime |-> 0,
     slept |-> 0, attempts |-> 0, hFile |-> "NULL"]

\* the call of entry with call context c has begun; errno holds what an
\* earlier call left
FsEntered(entry, manager, c) ==
    [NoFsCall EXCEPT !.entry = entry, !.manager = manager, !.given = c,
                     !.context = c, !.errno = fs.errno]

\* mutant: a failed test returns -1 and leaves errno as it was
FsRejected_ErrnoKept(entry, manager, c) ==
    [FsEntered(entry, manager, c) EXCEPT !.pc = "returned", !.retval = -1]

\* the return of -1 with errno = EINVAL that follows a failed test
FsRejected(entry, manager, c) ==
    [FsEntered(entry, manager, c) EXCEPT !.pc = "returned", !.retval = -1,
                                         !.errno = "EINVAL"]

\* the test of CALLED_AS_GPFILESYSTEM or a test of an argument fails
FsInvalid(entry, manager, c) == ~manager \/ ArgumentInvalid(entry, c)

FsUnchanged ==
    UNCHANGED <<bootstrap, gp_upgrade_mode, pg_class, toastrels, indexes,
                pg_depend, locks, xact, call, needs, dropped, chunks,
                backends, names, pxf>>

\* lines 732-1292, the functions of Wrapped: tests, one libhdfs call, its
\* result returned
gpfs_hdfs_wrapped(entry, manager, c, result, errno) ==
    /\ fs.pc = "idle"
    /\ entry \in DOMAIN Wrapped
    /\ fs' = IF FsInvalid(entry, manager, c)
             THEN FsRejected(entry, manager, c)
             ELSE [FsEntered(entry, manager, c) EXCEPT
                      !.pc = "returned", !.retval = result,
                      !.errno = errno, !.lib = <<Wrapped[entry]>>]
    /\ FsUnchanged

\* lines 659-729: builder is NULL when hdfsNewBuilder fails, connected is
\* the hdfsFS of hdfsBuilderConnect
gpfs_hdfs_connect(manager, c, builder, connected, errno) ==
    /\ fs.pc = "idle"
    /\ fs' = IF FsInvalid("gpfs_hdfs_connect", manager, c)
             THEN FsRejected("gpfs_hdfs_connect", manager, c)
             ELSE IF builder = "NULL"
             THEN [FsRejected("gpfs_hdfs_connect", manager, c) EXCEPT
                      !.lib = <<"hdfsNewBuilder">>]
             ELSE [FsEntered("gpfs_hdfs_connect", manager, c) EXCEPT
                      !.pc = "returned",
                      !.retval = IF connected = "NULL" THEN -1 ELSE 0,
                      !.errno = errno,
                      !.context.hdfs = connected,
                      !.lib = <<"hdfsNewBuilder", "hdfsBuilderSetNameNode">>
                              \o (IF c.port # 0
                                  THEN <<"hdfsBuilderSetNameNodePort">>
                                  ELSE <<>>)
                              \o (IF c.token # "NULL"
                                  THEN <<"hdfsBuilderSetToken">>
                                  ELSE <<>>)
                              \o (IF c.ccname # "NULL"
                                  THEN <<"hdfsBuilderSetKerbTicketCachePath">>
                                  ELSE <<>>)
                              \o <<"hdfsBuilderSetForceNewInstance",
                                   "hdfsBuilderConnect", "hdfsFreeBuilder">>]
    /\ FsUnchanged

\* lines 1302-1341
gpfs_hdfs_getpathinfo(manager, c, fileinfo, errno) ==
    /\ fs.pc = "idle"
    /\ fs' = IF FsInvalid("gpfs_hdfs_getpathinfo", manager, c)
             THEN FsRejected("gpfs_hdfs_getpathinfo", manager, c)
             ELSE [FsEntered("gpfs_hdfs_getpathinfo", manager, c) EXCEPT
                      !.pc = "returned",
                      !.retval = IF fileinfo = "NULL" THEN -1 ELSE 0,
                      !.errno = errno,
                      !.context.fileinfo = fileinfo,
                      !.lib = <<"hdfsGetPathInfo">>]
    /\ FsUnchanged

\* lines 1343-1376
gpfs_hdfs_freefileinfo(manager, c) ==
    /\ fs.pc = "idle"
    /\ fs' = IF FsInvalid("gpfs_hdfs_freefileinfo", manager, c)
             THEN FsRejected("gpfs_hdfs_freefileinfo", manager, c)
             ELSE [FsEntered("gpfs_hdfs_freefileinfo", manager, c) EXCEPT
                      !.pc = "returned", !.retval = 0,
                      !.lib = <<"hdfsFreeFileInfo">>]
    /\ FsUnchanged

\* lines 765-816: gpfs_hdfs_openfile up to its loop
gpfs_hdfs_openfile(manager, c) ==
    /\ fs.pc = "idle"
    /\ fs' = IF FsInvalid("gpfs_hdfs_openfile", manager, c)
             THEN FsRejected("gpfs_hdfs_openfile", manager, c)
             ELSE [FsEntered("gpfs_hdfs_openfile", manager, c) EXCEPT
                      !.pc = "loop", !.numRetry = NumRetry, !.sleepTime = 0]
    /\ FsUnchanged

\* sleepTime after an attempt, lines 830-831
NextSleepTime(sleepTime) ==
    LET doubled == sleepTime * 2 + SleepStep
    IN IF doubled < MaxSleep THEN doubled ELSE MaxSleep

\* mutant: a NULL handle is retried whatever errno holds
OpenfileAttempt_AnyErrno(hFile, errno) ==
    /\ fs.pc = "loop"
    /\ LET numRetry == fs.numRetry - 1
           again == numRetry > 0 /\ hFile = "NULL"
           tried == [fs EXCEPT !.slept = fs.sleepTime,
                               !.attempts = fs.attempts + 1,
                               !.lib = <<"hdfsOpenFile">>,
                               !.hFile = hFile,
                               !.errno = errno,
                               !.sleepTime = NextSleepTime(fs.sleepTime),
                               !.numRetry = numRetry]
       IN fs' = IF again THEN tried
                ELSE [tried EXCEPT
                         !.pc = "returned",
                         !.retval = IF hFile = "NULL" THEN -1 ELSE 0,
                         !.context.hFile = hFile]
    /\ FsUnchanged

\* lines 818-841: one pass of the do-while of gpfs_hdfs_openfile, and the
\* return when the loop ends; hFile and errno are what hdfsOpenFile gives
OpenfileAttempt(hFile, errno) ==
    /\ fs.pc = "loop"
    /\ LET numRetry == fs.numRetry - 1
           again == numRetry > 0 /\ hFile = "NULL" /\ errno = "EBUSY"
           tried == [fs EXCEPT !.slept = fs.sleepTime,
                               !.attempts = fs.attempts + 1,
                               !.lib = <<"hdfsOpenFile">>,
                               !.hFile = hFile,
                               !.errno = errno,
                               !.sleepTime = NextSleepTime(fs.sleepTime),
                               !.numRetry = numRetry]
       IN fs' = IF again THEN tried
                ELSE [tried EXCEPT
                         !.pc = "returned",
                         !.retval = IF hFile = "NULL" THEN -1 ELSE 0,
                         !.context.hFile = hFile]
    /\ FsUnchanged

----------------------------------------------------------------------------
(* HdfsSplittableDataAccessor.java: the PXF accessor of a splittable file. *)
(* The file is given by the number of records of each of its splits, as    *)
(* fformat.getSplits returns them; record rec of split number split is the *)
(* pair of the two.  The RecordReader of a split is outside the file: its  *)
(* next() gives the records of the split in order and false from then on.  *)

\* InputData.INVALID_SPLIT_IDX
INVALID_SPLIT_IDX == -1

\* the accessor as its constructor leaves it: segSplits, reader and iter
\* are null
NoAccessor ==
    [splits |-> <<>>, fragment |-> INVALID_SPLIT_IDX, opened |-> FALSE,
     closed |-> FALSE, openResult |-> FALSE, segSplits |-> <<>>, iter |-> 0,
     reader |-> [null |-> TRUE, split |-> 0, pos |-> 0],
     results |-> <<>>]

\* what a call of readNextObject gave: a OneRow of a record, null, or the
\* NullPointerException it threw
Returned(kind, split, rec) == [kind |-> kind, split |-> split, rec |-> rec]

\* lines 99-109: the accessor a after getNextSplit, and what it returned
getNextSplit(a) ==
    IF ~(a.iter < Len(a.segSplits))
    THEN [ok |-> FALSE, a |-> a]
    ELSE [ok |-> TRUE,
          a |-> [a EXCEPT !.iter = a.iter + 1,
                          !.reader = [null |-> FALSE,
                                      split |-> a.segSplits[a.iter + 1],
                                      pos |-> 0]]]

\* reader.next(key, data) on the accessor a, whose reader is not null:
\* whether there was a record, and the accessor after it
ReaderNext(a) ==
    IF a.reader.pos < a.splits[a.reader.split + 1]
    THEN [has |-> TRUE, a |-> [a EXCEPT !.reader.pos = a.reader.pos + 1]]
    ELSE [has |-> FALSE, a |-> a]

\* lines 56-87
openForRead ==
    /\ ~pxf.opened
    /\ LET needed_split_idx == pxf.fragment
           actual_num_of_splits == Len(pxf.splits)
           chosen == IF /\ needed_split_idx # INVALID_SPLIT_IDX
                        /\ needed_split_idx < actual_num_of_splits
                     THEN <<needed_split_idx>>
                     ELSE <<>>
           got == getNextSplit([pxf EXCEPT !.segSplits = chosen, !.iter = 0])
       IN pxf' = [got.a EXCEPT !.opened = TRUE, !.openResult = got.ok]
    /\ UNCHANGED <<bootstrap, gp_upgrade_mode, pg_class, toastrels, indexes,
                   pg_depend, locks, xact, call, needs, dropped, chunks,
                   backends, names, fs>>

\* lines 115-134; a call on a null reader throws at line 117
readNextObject ==
    /\ pxf.opened /\ ~pxf.closed
    /\ Len(pxf.results) < MaxReads
    /\ IF pxf.reader.null
       THEN pxf' = [pxf EXCEPT !.results = Append(@, Returned("NullPointerException", 0, 0))]
       ELSE LET first == ReaderNext(pxf)
                split == getNextSplit(first.a)
                second == ReaderNext(split.a)
                after == IF first.has THEN first.a
                         ELSE IF split.ok THEN second.a ELSE split.a
                row == IF first.has \/ (split.ok /\ second.has)
                       THEN Returned("OneRow", after.reader.split,
                                     after.reader.pos)
                       ELSE Returned("null", 0, 0)
            IN pxf' = [after EXCEPT !.results = Append(@, row)]
    /\ UNCHANGED <<bootstrap, gp_upgrade_mode, pg_class, toastrels, indexes,
                   pg_depend, locks, xact, call, needs, dropped, chunks,
                   backends, names, fs>>

\* lines 140-144
closeForRead ==
    /\ pxf.opened /\ ~pxf.closed
    /\ pxf' = [pxf EXCEPT !.closed = TRUE]
    /\ UNCHANGED <<bootstrap, gp_upgrade_mode, pg_class, toastrels, indexes,
                   pg_depend, locks, xact, call, needs, dropped, chunks,
                   backends, names, fs>>

----------------------------------------------------------------------------
(* The provisioning runs.                                                  *)

OwnerRow(relkind, relstorage, relisshared, att) ==
    [relkind |-> relkind, relstorage |-> relstorage,
     relisshared |-> relisshared, reltoastrelid |-> InvalidOid, att |-> att]

\* ordinary heap tables of every shape, shared or not; exempt relations and
\* relations that are not tables, with a column that would need toasting
OwnerRows ==
    {OwnerRow("r", "h", sh, att) : sh \in BOOLEAN, att \in OwnerAtts}
    \cup {OwnerRow("r", st, FALSE, <<Int4Att, VarAtt(-1, "x")>>) :
             st \in {"x", "a"}}
    \cup {OwnerRow(k, "h", FALSE, <<Int4Att, VarAtt(-1, "x")>>) :
             k \in RelKinds \ {"r"}}

Init ==
    /\ bootstrap \in BOOLEAN
    /\ gp_upgrade_mode \in BOOLEAN
    /\ pg_class \in [Owners -> OwnerRows]
    /\ \A o \in Owners : pg_class[o].relkind = "u" => bootstrap
    /\ toastrels = {}
    /\ indexes = {}
    /\ pg_depend = {}
    /\ locks = {}
    /\ xact = NoXact
    /\ call = NoCall
    /\ needs = NotEvaluated
    /\ dropped = NoDrop
    /\ chunks = NoChunks
    /\ backends = NoBackends
    /\ names = NoNames
    /\ fs = NoFsCall
    /\ pxf = NoAccessor

Next ==
    \/ \E o \in Owners, ipc \in BOOLEAN : AlterTableCreateToastTable(o, ipc)
    \/ \E o \in Owners, id \in IdentityInputs, ipc \in BOOLEAN :
         \E c \in {NullPointer, BootstrapToastTypid(id[1])} :
           AlterTableCreateToastTableWithOid(o, id[1], id[2], c, ipc)
    \/ \E o \in Owners, id \in IdentityInputs :
         BootstrapToastTable(o, id[1], id[2])
    \/ EndBootstrap
    \/ CommitTransaction
    \/ AbortTransaction

Spec == Init /\ [][Next]_vars

----------------------------------------------------------------------------
(* The evaluator runs: RelationNeedsToastTable applied to relations of     *)
(* every storage kind whose attribute lists are drawn from AttChoices,     *)
(* with dropped attributes before and after the live ones.                 *)

Int2Att == [attisdropped |-> FALSE, attlen |-> 2, attalign |-> "s",
            maxlen |-> 2, attstorage |-> "p"]

Int8Att == [attisdropped |-> FALSE, attlen |-> 8, attalign |-> "d",
            maxlen |-> 8, attstorage |-> "p"]

CharAtt == [attisdropped |-> FALSE, attlen |-> 1, attalign |-> "c",
            maxlen |-> 1, attstorage |-> "p"]

AttChoices ==
    {Int2Att, Int4Att, Int8Att, CharAtt, VarAtt(-1, "e"), VarAtt(100, "m")}
    \cup {VarAtt(m, st) : m \in {-1, 50, 100, 1976, 3000}, st \in {"p", "x"}}

\* a dropped text column and a dropped int8 column
DroppedAtts ==
    { [attisdropped |-> TRUE, attlen |-> -1, attalign |-> "i",
       maxlen |-> -1, attstorage |-> "x"],
      [attisdropped |-> TRUE, attlen |-> 8, attalign |-> "d",
       maxlen |-> 8, attstorage |-> "p"] }

Repeat(a, k) == [i \in 1..k |-> a]

SeqsUpTo(S, n) == UNION {[1..k -> S] : k \in 0..n}

EvalAtts ==
    { Repeat(d, f) \o base \o Repeat(d, b) :
        d \in DroppedAtts, f \in {0, 1}, b \in {0, 1, MaxDropped},
        base \in SeqsUpTo(AttChoices, MaxAtts) }

InitEval ==
    /\ bootstrap = FALSE
    /\ gp_upgrade_mode = FALSE
    /\ \E st \in RelStorages, att \in EvalAtts :
         pg_class = [o \in Owners |-> OwnerRow("r", st, FALSE, att)]
    /\ toastrels = {}
    /\ indexes = {}
    /\ pg_depend = {}
    /\ locks = {}
    /\ xact = NoXact
    /\ call = NoCall
    /\ needs = NotEvaluated
    /\ dropped = NoDrop
    /\ chunks = NoChunks
    /\ backends = NoBackends
    /\ names = NoNames
    /\ fs = NoFsCall
    /\ pxf = NoAccessor

\* a caller asks whether relation o needs a toast table
Evaluate(o) ==
    /\ needs' = [relOid |-> o, result |-> RelationNeedsToastTable(pg_class[o])]
    /\ UNCHANGED <<bootstrap, gp_upgrade_mode, pg_class, toastrels, indexes,
                   pg_depend, locks, xact, call, dropped, chunks, backends, names, fs, pxf>>

NextEval == \E o \in Owners : Evaluate(o)

SpecEval == InitEval /\ [][NextEval]_vars

----------------------------------------------------------------------------
(* The runs that compare two relations: owner 1 has a tuple descriptor,    *)
(* owner 2 the same descriptor after one change that makes the row larger: *)
(* a larger declared maximum of a variable-length attribute, an unbounded  *)
(* one, or one more live attribute.  The descriptors are small ones and a  *)
(* wide one, of WideCols - 1 columns of the largest varchar.               *)

\* what type_maximum_size returns for varchar(10485760), the largest
\* varchar, in an encoding of up to four bytes a character
WideVarcharSize == 41943044

\* the columns of the wide relation after one more is appended
WideCols == 52

WideVarchar == VarAtt(WideVarcharSize, "x")

MonoChoices ==
    {Int4Att, Int8Att, VarAtt(-1, "x"), VarAtt(50, "x"), VarAtt(1976, "x"),
     VarAtt(100, "p"), VarAtt(3000, "p"), WideVarchar}

MonoBases ==
    SeqsUpTo(MonoChoices, MaxAtts) \cup {Repeat(WideVarchar, WideCols - 1)}

\* the live variable-length attributes of att with a declared maximum
Bounded(att) ==
    {i \in DOMAIN att : /\ ~att[i].attisdropped
                         /\ att[i].attlen <= 0
                         /\ att[i].maxlen >= 0}

\* att after one change that makes the row larger
Enlarged(att) ==
    UNION {{[att EXCEPT ![i].maxlen = m] :
               m \in {n \in {100, 1976, 3000, WideVarcharSize} :
                         n > att[i].maxlen}} : i \in Bounded(att)}
    \cup {[att EXCEPT ![i].maxlen = -1] : i \in Bounded(att)}
    \cup {Append(att, a) : a \in MonoChoices}

InitMonotone ==
    /\ bootstrap = FALSE
    /\ gp_upgrade_mode = FALSE
    /\ \E base \in MonoBases :
         \E after \in Enlarged(base) :
            pg_class = [o \in Owners |->
                          OwnerRow("r", "h", FALSE,
                                   IF o = 1 THEN base ELSE after)]
    /\ toastrels = {}
    /\ indexes = {}
    /\ pg_depend = {}
    /\ locks = {}
    /\ xact = NoXact
    /\ call = NoCall
    /\ needs = NotEvaluated
    /\ dropped = NoDrop
    /\ chunks = NoChunks
    /\ backends = NoBackends
    /\ names = NoNames
    /\ fs = NoFsCall
    /\ pxf = NoAccessor

\* data_length += attlen or maxlen (lines 449, 459) leaves the range of
\* int32 at some iteration of the loop over att[i..]
RECURSIVE AdditionOverflows(_, _, _)
AdditionOverflows(att, i, data_length) ==
    IF i > Len(att) THEN FALSE
    ELSE IF att[i].attisdropped THEN AdditionOverflows(att, i + 1, data_length)
    ELSE LET aligned == att_align(data_length, att[i].attalign)
             size == IF att[i].attlen > 0 THEN att[i].attlen
                     ELSE IF att[i].maxlen < 0 THEN 0
                     ELSE att[i].maxlen
         IN IF aligned < 0 \/ aligned > INT32_MAX - size THEN TRUE
            ELSE AdditionOverflows(att, i + 1, aligned + size)

\* the evaluation of relation o overflows a signed addition: the C
\* standard leaves the behaviour undefined, so the caller may get either
\* answer; a build whose additions wrap around gives the answer of Evaluate
EvaluateUndefined(o) ==
    /\ AdditionOverflows(pg_class[o].att, 1, 0)
    /\ \E result \in BOOLEAN : needs' = [relOid |-> o, result |-> result]
    /\ UNCHANGED <<bootstrap, gp_upgrade_mode, pg_class, toastrels, indexes,
                   pg_depend, locks, xact, call, dropped, chunks, backends,
                   names, fs, pxf>>

NextMonotone ==
    \/ \E o \in Owners : Evaluate(o)
    \/ \E o \in Owners : EvaluateUndefined(o)

SpecMonotone == InitMonotone /\ [][NextMonotone]_vars

----------------------------------------------------------------------------
(* Properties of the evaluator, checked under SpecEval.                    *)

\* the relation the last evaluation looked at
Evaluated == needs.relOid # InvalidOid

EvaluatedRel == pg_class[needs.relOid]

LiveAtts(att) == SelectSeq(att, LAMBDA a : ~a.attisdropped)

IsVarlena(a) == a.attlen <= 0

Exempt(rel) == rel.relstorage # "h"

\* the row size the design text describes, over the first n attributes:
\* padded fixed sizes plus declared maxima of the variable-length ones,
\* those of storage class plain counted or not
RECURSIVE DeclaredSize(_, _, _)
DeclaredSize(att, n, countPlain) ==
    IF n = 0 THEN 0
    ELSE LET a == att[n]
             before == DeclaredSize(att, n - 1, countPlain)
         IN IF a.attisdropped THEN before
            ELSE IF IsVarlena(a) /\ a.attstorage = "p" /\ ~countPlain
            THEN before
            ELSE att_align(before, a.attalign)
                 + (IF IsVarlena(a) THEN a.maxlen ELSE a.attlen)

\* header and null bitmap of a row of natts attributes
RowOverhead(natts) == MAXALIGN(HeapTupleHeaderBitsOffset + BITMAPLEN(natts))

AllVarlenaPlain(att) ==
    \A i \in 1..Len(att) :
        (~att[i].attisdropped /\ IsVarlena(att[i])) => att[i].attstorage = "p"

SomeVarlenaUnbounded(att) ==
    \E i \in 1..Len(att) :
        ~att[i].attisdropped /\ IsVarlena(att[i]) /\ att[i].maxlen < 0

\* C3: a relation whose variable-length attributes are all of storage class
\* plain never needs a toast table, whatever their sizes and whatever the
\* fixed-length attributes
C3_AllPlainNotEligible ==
    (Evaluated /\ AllVarlenaPlain(EvaluatedRel.att)) => needs.result = FALSE

C3_Witness ==
    /\ Evaluated
    /\ ~Exempt(EvaluatedRel)
    /\ AllVarlenaPlain(EvaluatedRel.att)
    /\ SomeVarlenaUnbounded(EvaluatedRel.att)
    /\ needs.result = FALSE

\* C4 as claimed: one attribute of unbounded maximum size makes the
\* relation need a toast table (read in the claim's favour: of a relation
\* that is not of an exempt kind)
C4_Original ==
    (Evaluated /\ ~Exempt(EvaluatedRel) /\ SomeVarlenaUnbounded(EvaluatedRel.att))
        => needs.result = TRUE

\* C4 as amended: a relation of non-exempt kind with a variable-length
\* attribute of unbounded maximum size and a variable-length attribute that
\* is not plain (the same one or another) needs a toast table; when the
\* relation is exempt or all its variable-length attributes are plain the
\* result is false instead
C4_UnboundedEligible ==
    (Evaluated /\ SomeVarlenaUnbounded(EvaluatedRel.att)) =>
        (needs.result = (~Exempt(EvaluatedRel)
                         /\ ~AllVarlenaPlain(EvaluatedRel.att)))

C4_Witness ==
    /\ Evaluated
    /\ ~Exempt(EvaluatedRel)
    /\ \E i \in 1..Len(EvaluatedRel.att) :
          /\ ~EvaluatedRel.att[i].attisdropped
          /\ EvaluatedRel.att[i].maxlen < 0
          /\ EvaluatedRel.att[i].attstorage = "p"
    /\ ~AllVarlenaPlain(EvaluatedRel.att)
    /\ needs.result = TRUE

\* the case C5 is about: not exempt, every variable-length attribute
\* bounded, one of them not plain
C5_Case ==
    /\ Evaluated
    /\ ~Exempt(EvaluatedRel)
    /\ ~SomeVarlenaUnbounded(EvaluatedRel.att)
    /\ ~AllVarlenaPlain(EvaluatedRel.att)

WithoutDropped(rel) == [rel EXCEPT !.att = LiveAtts(rel.att)]

\* the relation with every dropped attribute turned into a dropped char
Neutralised(rel) ==
    [rel EXCEPT !.att = [i \in 1..Len(rel.att) |->
        IF rel.att[i].attisdropped
        THEN [CharAtt EXCEPT !.attisdropped = TRUE]
        ELSE rel.att[i]]]

\* C6 as claimed: removing the dropped attributes never changes the result
C6_Original ==
    Evaluated =>
        needs.result = RelationNeedsToastTable(WithoutDropped(EvaluatedRel))

\* C6 as amended: the length kind, size, alignment and storage class of a
\* dropped attribute never change the result, and removing the dropped
\* attributes does not change it as long as the row overhead, which counts
\* them in the null bitmap, stays the same
C6_DroppedSkipped ==
    Evaluated =>
        /\ needs.result = RelationNeedsToastTable(Neutralised(EvaluatedRel))
        /\ RowOverhead(Len(EvaluatedRel.att))
             = RowOverhead(Len(LiveAtts(EvaluatedRel.att)))
           => needs.result
                = RelationNeedsToastTable(WithoutDropped(EvaluatedRel))

\* a dropped unbounded non-plain column next to live columns that need no
\* toast table
C6_Witness ==
    /\ Evaluated
    /\ ~Exempt(EvaluatedRel)
    /\ LiveAtts(EvaluatedRel.att) # <<>>
    /\ \E i \in 1..Len(EvaluatedRel.att) :
          /\ EvaluatedRel.att[i].attisdropped
          /\ EvaluatedRel.att[i].maxlen < 0
          /\ EvaluatedRel.att[i].attstorage # "p"
    /\ needs.result = FALSE

----------------------------------------------------------------------------
(* The runs with an exempt relation: owner 1 is an external, append-only   *)
(* or parquet relation with attributes drawn from AttChoices, owner 2 an   *)
(* ordinary heap table with a text column.                                 *)

ExemptAtts == SeqsUpTo(AttChoices, 1) \cup OwnerAtts

InitExempt ==
    /\ bootstrap \in BOOLEAN
    /\ gp_upgrade_mode \in BOOLEAN
    /\ \E st \in RelStorages \ {"h"}, sh \in BOOLEAN, att \in ExemptAtts :
         pg_class = [o \in Owners |->
                       IF o = 1 THEN OwnerRow("r", st, sh, att)
                       ELSE OwnerRow("r", "h", FALSE, <<Int4Att, VarAtt(-1, "x")>>)]
    /\ toastrels = {}
    /\ indexes = {}
    /\ pg_depend = {}
    /\ locks = {}
    /\ xact = NoXact
    /\ call = NoCall
    /\ needs = NotEvaluated
    /\ dropped = NoDrop
    /\ chunks = NoChunks
    /\ backends = NoBackends
    /\ names = NoNames
    /\ fs = NoFsCall
    /\ pxf = NoAccessor

SpecExempt == InitExempt /\ [][Next]_vars

----------------------------------------------------------------------------
(* The runs with a toast relation as the owner: owner 1 has the tuple      *)
(* descriptor of a toast relation and is catalogued as one, or as a table; *)
(* owner 2 is an ordinary heap table with a text column.                   *)

InitToastOwner ==
    /\ bootstrap \in BOOLEAN
    /\ gp_upgrade_mode \in BOOLEAN
    /\ \E k \in {"t", "r"}, sh1 \in BOOLEAN, sh2 \in BOOLEAN :
         pg_class = [o \in Owners |->
                       IF o = 1 THEN OwnerRow(k, "h", sh1, ToastTupleDesc)
                       ELSE OwnerRow("r", "h", sh2, <<Int4Att, VarAtt(-1, "x")>>)]
    /\ toastrels = {}
    /\ indexes = {}
    /\ pg_depend = {}
    /\ locks = {}
    /\ xact = NoXact
    /\ call = NoCall
    /\ needs = NotEvaluated
    /\ dropped = NoDrop
    /\ chunks = NoChunks
    /\ backends = NoBackends
    /\ names = NoNames
    /\ fs = NoFsCall
    /\ pxf = NoAccessor

SpecToastOwner == InitToastOwner /\ [][Next]_vars

----------------------------------------------------------------------------
(* The runs with chunk writers: a heap table with a text column is         *)
(* toasted, one with a varchar(50) column is not, and concurrent writers   *)
(* insert chunks into the committed toast relation.                        *)

InitChunks ==
    /\ bootstrap \in BOOLEAN
    /\ gp_upgrade_mode = FALSE
    /\ pg_class = [o \in Owners |->
                     IF o = 1
                     THEN OwnerRow("r", "h", FALSE, <<Int4Att, VarAtt(-1, "x")>>)
                     ELSE OwnerRow("r", "h", FALSE, <<Int4Att, VarAtt(50, "x")>>)]
    /\ toastrels = {}
    /\ indexes = {}
    /\ pg_depend = {}
    /\ locks = {}
    /\ xact = NoXact
    /\ call = NoCall
    /\ needs = NotEvaluated
    /\ dropped = NoDrop
    /\ chunks = NoChunks
    /\ backends = NoBackends
    /\ names = NoNames
    /\ fs = NoFsCall
    /\ pxf = NoAccessor

NextChunks ==
    \/ \E o \in Owners : AlterTableCreateToastTable(o, FALSE)
    \/ \E o \in Owners :
         BootstrapToastTable(o, PgFileSpaceEntryToastTable,
                             ToastIndexOidFor(PgFileSpaceEntryToastTable))
    \/ EndBootstrap
    \/ CommitTransaction
    \/ AbortTransaction
    \/ \E w \in Writers, t \in toastrels, chunk_id \in ChunkIds,
          chunk_seq \in ChunkSeqs, chunk_data \in ChunkData :
         InsertChunkHeap(w, t, chunk_id, chunk_seq, chunk_data)
    \/ \E w \in Writers : InsertChunkIndex(w)

SpecChunks == InitChunks /\ [][NextChunks]_vars

----------------------------------------------------------------------------
(* The runs with failures: heap tables with a text column, shared or not,  *)
(* are toasted in any mode; the creation sequence may raise an ERROR after *)
(* any number of its steps, and a unit of work may abort.                  *)

\* the longest creation sequence: a partition child outside bootstrap mode
MaxSteps == 8

InitAtomic ==
    /\ bootstrap \in BOOLEAN
    /\ gp_upgrade_mode \in BOOLEAN
    /\ pg_class \in [Owners -> {OwnerRow("r", "h", sh, <<Int4Att, VarAtt(-1, "x")>>) :
                                   sh \in BOOLEAN}]
    /\ toastrels = {}
    /\ indexes = {}
    /\ pg_depend = {}
    /\ locks = {}
    /\ xact = NoXact
    /\ call = NoCall
    /\ needs = NotEvaluated
    /\ dropped = NoDrop
    /\ chunks = NoChunks
    /\ backends = NoBackends
    /\ names = NoNames
    /\ fs = NoFsCall
    /\ pxf = NoAccessor

NextAtomic ==
    \/ \E o \in Owners, ipc \in BOOLEAN : AlterTableCreateToastTable(o, ipc)
    \/ \E o \in Owners, id \in IdentityInputs :
         AlterTableCreateToastTableWithOid(o, id[1], id[2], NullPointer, FALSE)
    \/ \E o \in Owners, id \in IdentityInputs :
         BootstrapToastTable(o, id[1], id[2])
    \/ \E o \in Owners, id \in IdentityInputs, ipc \in BOOLEAN, n \in 0..(MaxSteps - 1) :
         CreateSequenceError(o, id[1], id[2], ipc, n)
    \/ EndBootstrap
    \/ CommitTransaction
    \/ AbortTransaction

SpecAtomic == InitAtomic /\ [][NextAtomic]_vars

----------------------------------------------------------------------------
(* The concurrent runs: two backends, outside bootstrap mode, run the      *)
(* ALTER TABLE entry points on two heap tables with a text column, one of  *)
(* them a partition child; each backend has a pre-assigned identity of its *)
(* own.                                                                    *)

\* the <<toast table Oid, toast index Oid>> backend b may hand over
BackendInputs(b) ==
    {<<InvalidOid, InvalidOid>>,
     IF b = 1 THEN <<PgFileSpaceEntryToastTable,
                     ToastIndexOidFor(PgFileSpaceEntryToastTable)>>
     ELSE <<PgResQueueToastTable + 1,
             ToastIndexOidFor(PgResQueueToastTable + 1)>>}

InitConcurrent ==
    /\ bootstrap = FALSE
    /\ gp_upgrade_mode \in BOOLEAN
    /\ pg_class = [o \in Owners |->
                     OwnerRow("r", "h", FALSE, <<Int4Att, VarAtt(-1, "x")>>)]
    /\ toastrels = {}
    /\ indexes = {}
    /\ pg_depend = {}
    /\ locks = {}
    /\ xact = NoXact
    /\ call = NoCall
    /\ needs = NotEvaluated
    /\ dropped = NoDrop
    /\ chunks = NoChunks
    /\ backends = NoBackends
    /\ names = NoNames
    /\ fs = NoFsCall
    /\ pxf = NoAccessor

NextConcurrent ==
    \/ \E b \in Backends, o \in Owners :
         \E id \in BackendInputs(b), entry \in
               {"AlterTableCreateToastTable", "AlterTableCreateToastTableWithOid"} :
            BackendOpen(b, entry, o, id[1], id[2])
    \/ \E b \in Backends : BackendTest(b)
    \/ \E b \in Backends : BackendCreate(b)
    \/ \E b \in Backends, commit \in BOOLEAN : BackendEnd(b, commit)

SpecConcurrent == InitConcurrent /\ [][NextConcurrent]_vars

----------------------------------------------------------------------------
(* The naming runs: the names of lines 248-251 are built for owners whose  *)
(* Oids have one, two, three and more decimal digits, Oids that are        *)
(* prefixes of one another included.                                       *)

\* the Oids of the owners named
NameOids == {1, 2, 10, 11, 12, 21, 100, 101, 110, 16384}

InitNames ==
    /\ bootstrap \in BOOLEAN
    /\ gp_upgrade_mode = FALSE
    /\ pg_class = [o \in Owners |->
                     OwnerRow("r", "h", FALSE, <<Int4Att, VarAtt(-1, "x")>>)]
    /\ toastrels = {}
    /\ indexes = {}
    /\ pg_depend = {}
    /\ locks = {}
    /\ xact = NoXact
    /\ call = NoCall
    /\ needs = NotEvaluated
    /\ dropped = NoDrop
    /\ chunks = NoChunks
    /\ backends = NoBackends
    /\ names = NoNames
    /\ fs = NoFsCall
    /\ pxf = NoAccessor

NextNames == \E relOid \in NameOids : NameToast(relOid)

SpecNames == InitNames /\ [][NextNames]_vars

\* A call of the filesystem manager: any entry point, with any call context
\* and any errno left by what ran before.  The functions keep nothing from
\* one call to the next, so a behaviour is one call.
InitHdfs ==
    /\ bootstrap = FALSE
    /\ gp_upgrade_mode = FALSE
    /\ pg_class = [o \in Owners |->
                     OwnerRow("r", "h", FALSE, <<Int4Att, VarAtt(-1, "x")>>)]
    /\ toastrels = {}
    /\ indexes = {}
    /\ pg_depend = {}
    /\ locks = {}
    /\ xact = NoXact
    /\ call = NoCall
    /\ needs = NotEvaluated
    /\ dropped = NoDrop
    /\ chunks = NoChunks
    /\ backends = NoBackends
    /\ names = NoNames
    /\ fs \in {[NoFsCall EXCEPT !.errno = e] : e \in Errnos}
    /\ pxf = NoAccessor

NextHdfs ==
    \/ \E entry \in DOMAIN Wrapped, manager \in BOOLEAN :
         \E c \in FsContexts(entry), result \in Numbers, errno \in Errnos :
            gpfs_hdfs_wrapped(entry, manager, c, result, errno)
    \/ \E manager \in BOOLEAN, c \in FsContexts("gpfs_hdfs_connect") :
         \E builder \in Pointers, connected \in Pointers, errno \in Errnos :
            gpfs_hdfs_connect(manager, c, builder, connected, errno)
    \/ \E manager \in BOOLEAN, c \in FsContexts("gpfs_hdfs_getpathinfo") :
         \E fileinfo \in Pointers, errno \in Errnos :
            gpfs_hdfs_getpathinfo(manager, c, fileinfo, errno)
    \/ \E manager \in BOOLEAN, c \in FsContexts("gpfs_hdfs_freefileinfo") :
         gpfs_hdfs_freefileinfo(manager, c)
    \/ \E manager \in BOOLEAN, c \in FsContexts("gpfs_hdfs_openfile") :
         gpfs_hdfs_openfile(manager, c)
    \/ \E hFile \in Pointers, errno \in Errnos : OpenfileAttempt(hFile, errno)

SpecHdfs == InitHdfs /\ [][NextHdfs]_vars

\* hdfsOpenFile and pg_usleep return: a call that is in its loop goes on
SpecHdfsLive ==
    /\ SpecHdfs
    /\ WF_vars(\E hFile \in Pointers, errno \in Errnos :
                  OpenfileAttempt(hFile, errno))

\* An accessor made for one fragment of a file, opened once and then read:
\* the file has up to MaxSplits splits, the fragment is a split of the
\* file, a number past its last split, or INVALID_SPLIT_IDX.
InitPxf ==
    /\ bootstrap = FALSE
    /\ gp_upgrade_mode = FALSE
    /\ pg_class = [o \in Owners |->
                     OwnerRow("r", "h", FALSE, <<Int4Att, VarAtt(-1, "x")>>)]
    /\ toastrels = {}
    /\ indexes = {}
    /\ pg_depend = {}
    /\ locks = {}
    /\ xact = NoXact
    /\ call = NoCall
    /\ needs = NotEvaluated
    /\ dropped = NoDrop
    /\ chunks = NoChunks
    /\ backends = NoBackends
    /\ names = NoNames
    /\ fs = NoFsCall
    /\ \E n \in 0..MaxSplits :
         \E splits \in [1..n -> 0..MaxRecords] :
            \E fragment \in {INVALID_SPLIT_IDX} \cup (0..MaxSplits) :
               pxf = [NoAccessor EXCEPT !.splits = splits,
                                        !.fragment = fragment]

NextPxf == openForRead \/ readNextObject \/ closeForRead

SpecPxf == InitPxf /\ [][NextPxf]_vars

----------------------------------------------------------------------------
(* The bootstrap runs of initdb: the bootstrap process declares toast      *)
(* tables for heap catalogs, shared or not, with every pair of the static  *)
(* map.                                                                    *)

InitBootstrap ==
    /\ bootstrap = TRUE
    /\ gp_upgrade_mode = FALSE
    /\ pg_class \in [Owners -> {OwnerRow("r", "h", sh, att) :
                                  sh \in BOOLEAN, att \in OwnerAtts}]
    /\ toastrels = {}
    /\ indexes = {}
    /\ pg_depend = {}
    /\ locks = {}
    /\ xact = NoXact
    /\ call = NoCall
    /\ needs = NotEvaluated
    /\ dropped = NoDrop
    /\ chunks = NoChunks
    /\ backends = NoBackends
    /\ names = NoNames
    /\ fs = NoFsCall
    /\ pxf = NoAccessor

NextBootstrap ==
    \/ \E o \in Owners, id \in BootstrapInputs :
         BootstrapToastTable(o, id[1], id[2])
    \/ CommitTransaction

SpecBootstrap == InitBootstrap /\ [][NextBootstrap]_vars

----------------------------------------------------------------------------
(* The runs with DROP TABLE: heap tables with a text column, shared or     *)
(* not, toasted in any mode and dropped once bootstrap is over.  The       *)
(* bootstrap script declares toast tables with Oids of the static map; the *)
(* ALTER TABLE entry points run once bootstrap is over and are never given *)
(* those, so that the Oid of a toast relation tells the mode that made it. *)

DropBootstrapInputs ==
    {<<t, ToastIndexOidFor(t)>> :
        t \in {PgFileSpaceEntryToastTable, GpSegmentConfigToastTable}}

DropAlterInputs ==
    {id \in IdentityInputs : id[1] \notin RegisteredToastOids}

InitDrop ==
    /\ bootstrap \in BOOLEAN
    /\ gp_upgrade_mode \in BOOLEAN
    /\ pg_class \in [Owners -> {OwnerRow("r", "h", sh, <<Int4Att, VarAtt(-1, "x")>>) :
                                  sh \in BOOLEAN}]
    /\ toastrels = {}
    /\ indexes = {}
    /\ pg_depend = {}
    /\ locks = {}
    /\ xact = NoXact
    /\ call = NoCall
    /\ needs = NotEvaluated
    /\ dropped = NoDrop
    /\ chunks = NoChunks
    /\ backends = NoBackends
    /\ names = NoNames
    /\ fs = NoFsCall
    /\ pxf = NoAccessor

\* the entry points are given relations that exist
NextDrop ==
    \/ \E o \in Owners \ dropped.gone, ipc \in BOOLEAN :
         ~bootstrap /\ AlterTableCreateToastTable(o, ipc)
    \/ \E o \in Owners \ dropped.gone, id \in DropAlterInputs :
         /\ ~bootstrap
         /\ AlterTableCreateToastTableWithOid(o, id[1], id[2], NullPointer, FALSE)
    \/ \E o \in Owners \ dropped.gone, id \in DropBootstrapInputs :
         BootstrapToastTable(o, id[1], id[2])
    \/ \E o \in Owners : DropOwner(o)
    \/ EndBootstrap
    \/ CommitTransaction
    \/ AbortTransaction

SpecDrop == InitDrop /\ [][NextDrop]_vars

----------------------------------------------------------------------------
(* Properties of the provisioner, checked under Spec (C7: SpecExempt, C10: *)
(* and C11: SpecBootstrap, C16: SpecDrop).                                 *)

\* the toast relations and indexes made for owner o, found by their names
ToastRelsOf(o) == {t \in toastrels : t.relname = toast_relname(o)}

ToastIndexesOf(o) == {x \in indexes : x.relname = toast_idxname(o)}

\* this step is an invocation of an entry point on owner o
Invokes(o) == call = NoCall /\ call' # NoCall /\ call'.relOid = o

AlterEntries ==
    {"AlterTableCreateToastTable", "AlterTableCreateToastTableWithOid"}

\* the step creates exactly one toast relation with one index on it and
\* makes owner o reference it
ProvisionsOne(o) ==
    /\ call'.ret = "true"
    /\ call'.err = "none"
    /\ \E t \in toastrels' \ toastrels, x \in indexes' \ indexes :
          /\ toastrels' = toastrels \cup {t}
          /\ indexes' = indexes \cup {x}
          /\ x.indrelid = t.oid
          /\ pg_class'[o].reltoastrelid = t.oid

\* the step returns false and changes no catalog
NoOp ==
    /\ call'.ret = "false"
    /\ call'.err = "none"
    /\ toastrels' = toastrels
    /\ indexes' = indexes
    /\ pg_depend' = pg_depend
    /\ pg_class' = pg_class

\* C1 as claimed: outside upgrade mode, provisioning any eligible owner
\* without a toast relation succeeds, and provisioning it again is a no-op
\* that returns false
C1_Original ==
    [][\A o \in Owners :
         (Invokes(o) /\ call'.entry \in AlterEntries /\ ~gp_upgrade_mode
            /\ RelationNeedsToastTable(pg_class[o]))
         => IF pg_class[o].reltoastrelid = InvalidOid
            THEN ProvisionsOne(o)
            ELSE NoOp]_vars

\* C1 as amended: the same for every eligible owner that is not a shared
\* relation of an engine past bootstrap mode (for which the first call
\* raises UnsupportedSharedToast)
C1_Idempotent ==
    [][\A o \in Owners :
         (Invokes(o) /\ call'.entry \in AlterEntries /\ ~gp_upgrade_mode
            /\ RelationNeedsToastTable(pg_class[o])
            /\ (pg_class[o].relisshared => bootstrap))
         => IF pg_class[o].reltoastrelid = InvalidOid
            THEN ProvisionsOne(o)
            ELSE NoOp]_vars

\* the second call has returned false on an owner the first one toasted
C1_Witness ==
    /\ ~gp_upgrade_mode
    /\ call.entry \in AlterEntries
    /\ call.ret = "false"
    /\ RelationNeedsToastTable(pg_class[call.relOid])
    /\ pg_class[call.relOid].reltoastrelid # InvalidOid
    /\ Cardinality(ToastRelsOf(call.relOid)) = 1
    /\ Cardinality(ToastIndexesOf(call.relOid)) = 1

\* C2: in every engine mode an owner has at most one toast relation, and
\* it is the one its pg_class row references
C2_AtMostOneToast ==
    \A o \in Owners :
        /\ Cardinality(ToastRelsOf(o)) <= 1
        /\ \A t \in ToastRelsOf(o) : pg_class[o].reltoastrelid = t.oid

\* C7: a relation of an exempt kind never needs a toast table, whatever its
\* attributes, and no entry point creates one for it, pre-assigned identity
\* or not
C7_ExemptNeverToasted ==
    \A o \in Owners :
        Exempt(pg_class[o]) =>
            /\ ~RelationNeedsToastTable(pg_class[o])
            /\ ToastRelsOf(o) = {}
            /\ ToastIndexesOf(o) = {}
            /\ pg_class[o].reltoastrelid = InvalidOid
            /\ call.relOid = o => call.ret # "true"

\* an entry point given a pre-assigned identity has declined an exempt
\* relation with an unbounded non-plain column
C7_Witness ==
    /\ call # NoCall
    /\ call.toastOid # InvalidOid
    /\ call.toastIndexOid # InvalidOid
    /\ Exempt(pg_class[call.relOid])
    /\ ~AllVarlenaPlain(pg_class[call.relOid].att)
    /\ SomeVarlenaUnbounded(pg_class[call.relOid].att)
    /\ call.ret = "false"
    /\ toastrels # {}

\* the case C8 is about: an entry point invoked on a shared owner while the
\* engine is neither in bootstrap nor in upgrade mode
C8_Case(o) ==
    Invokes(o) /\ pg_class[o].relisshared /\ ~bootstrap /\ ~gp_upgrade_mode

\* C8 as claimed: the invocation fails with UnsupportedSharedToast whatever
\* the owner's eligibility and toast reference, and leaves the row as it was
C8_Original ==
    [][\A o \in Owners :
         C8_Case(o) => (call'.err = "UnsupportedSharedToast"
                        /\ pg_class'[o] = pg_class[o])]_vars

\* C8 as amended: it fails with UnsupportedSharedToast when the owner has no
\* toast reference and needs a toast table; when the owner is already
\* toasted or does not need one it returns false without an error; the
\* owner's row and the catalogs are as they were in both cases
C8_SharedGuard ==
    [][\A o \in Owners :
         C8_Case(o) =>
            /\ pg_class' = pg_class
            /\ toastrels' = toastrels
            /\ indexes' = indexes
            /\ pg_depend' = pg_depend
            /\ IF pg_class[o].reltoastrelid = InvalidOid
                  /\ RelationNeedsToastTable(pg_class[o])
               THEN call'.err = "UnsupportedSharedToast" /\ call'.ret = "none"
               ELSE call'.err = "none" /\ call'.ret = "false"]_vars

C8_Witness ==
    /\ call.err = "UnsupportedSharedToast"
    /\ pg_class[call.relOid].relisshared
    /\ pg_class[call.relOid].reltoastrelid = InvalidOid
    /\ ~bootstrap
    /\ ~gp_upgrade_mode

\* the case C9 is about: the last invocation was given a pre-assigned toast
\* Oid for an owner that does not need a toast table
C9_Case ==
    /\ call.entry \in {"BootstrapToastTable", "AlterTableCreateToastTableWithOid"}
    /\ call.toastOid # InvalidOid
    /\ ~RelationNeedsToastTable(pg_class[call.relOid])

\* C9 as claimed: such an invocation ends in an error
C9_Original == C9_Case => call.err # "none"

\* C9 as amended: BootstrapToastTable ends in an error; through
\* AlterTableCreateToastTableWithOid the call returns false without one;
\* the evaluator is consulted on both paths and nothing is created
C9_PreassignedNotNeeded ==
    C9_Case =>
        /\ call.entry = "BootstrapToastTable" =>
              call.err \in {"DoesNotRequireToast", "WrongObjectKind"}
        /\ call.entry = "AlterTableCreateToastTableWithOid" =>
              (call.err = "none" /\ call.ret = "false")
        /\ call.steps = <<>>
        /\ ToastRelsOf(call.relOid) = {}
        /\ \A t \in toastrels : t.oid # call.toastOid

C9_Witness ==
    /\ C9_Case
    /\ call.entry = "AlterTableCreateToastTableWithOid"
    /\ call.ret = "false"
    /\ call.err = "none"

\* the pairs <<toast table Oid, row type Oid>> of the static map, as the
\* catalog headers declare them
C10_DeclaredTypes ==
    { <<PgFileSpaceEntryToastTable, PG_FILESPACE_ENTRY_TOAST_RELTYPE_OID>>,
      <<GpSegmentConfigToastTable, GP_SEGMENT_CONFIGURATION_TOAST_RELTYPE_OID>>,
      <<PgAttributeEncodingToastTable, PG_ATTRIBUTE_ENCODING_TOAST_RELTYPE_OID>>,
      <<PgTypeEncodingToastTable, PG_TYPE_ENCODING_TOAST_RELTYPE_OID>>,
      <<PgPartitionEncodingToastTable, PG_PARTITION_ENCODING_TOAST_RELTYPE_OID>>,
      <<PgFileSystemToastTable, PG_FILESYSTEM_TOAST_RELTYPE_OID>>,
      <<PgRemoteCredentialsToastTable, PG_REMOTE_CREDENTIALS_TOAST_RELTYPE_OID>>,
      <<PgResQueueToastTable, PG_RESQUEUE_TOAST_RELTYPE_OID>> }

\* the case C10 is about: BootstrapToastTable has succeeded for the pair p
\* of the static map, given with its index Oid
C10_Case(p) ==
    /\ call.entry = "BootstrapToastTable"
    /\ call.ret = "true"
    /\ call.toastOid = p[1]
    /\ call.toastIndexOid # InvalidOid

\* C10: the toast relation has the pre-assigned Oid, its row type the mapped
\* type Oid, its index the pre-assigned index Oid; none was allocated
C10_BootstrapIdentity ==
    \A p \in C10_DeclaredTypes :
        C10_Case(p) =>
            /\ pg_class[call.relOid].reltoastrelid = call.toastOid
            /\ \E t \in ToastRelsOf(call.relOid) :
                  /\ t.oid = call.toastOid
                  /\ t.reltype = p[2]
                  /\ t.oid < FirstNormalObjectId
                  /\ t.reltype < FirstNormalObjectId
            /\ \E x \in ToastIndexesOf(call.relOid) :
                  /\ x.oid = call.toastIndexOid
                  /\ x.indrelid = call.toastOid
                  /\ x.oid < FirstNormalObjectId

\* the last pair of the static map has been provisioned after another one
C10_Witness ==
    /\ C10_Case(<<PgResQueueToastTable, PG_RESQUEUE_TOAST_RELTYPE_OID>>)
    /\ bootstrap
    /\ Cardinality(toastrels) = 2
    /\ \E t \in toastrels : t.reltype = PG_RESQUEUE_TOAST_RELTYPE_OID

\* the case C11 is about: BootstrapToastTable has succeeded with a toast
\* Oid the static map does not know
C11_Case ==
    /\ call.entry = "BootstrapToastTable"
    /\ call.ret = "true"
    /\ call.toastOid \notin RegisteredToastOids

\* C11 as claimed: none of the three identifiers of the objects created is
\* a pre-assigned one; all come from normal allocation
C11_Original ==
    C11_Case =>
        /\ \A t \in ToastRelsOf(call.relOid) :
              t.oid >= FirstNormalObjectId /\ t.reltype >= FirstNormalObjectId
        /\ \A x \in ToastIndexesOf(call.relOid) : x.oid >= FirstNormalObjectId

\* C11 as amended: only the row type Oid comes from normal allocation; the
\* toast relation and the index still get the toastOid and toastIndexOid
\* the caller supplied, and allocated ones only when those are InvalidOid
C11_UnregisteredIdentity ==
    C11_Case =>
        /\ ToastRelsOf(call.relOid) # {}
        /\ ToastIndexesOf(call.relOid) # {}
        /\ \A t \in ToastRelsOf(call.relOid) :
              /\ t.reltype >= FirstNormalObjectId
              /\ IF call.toastOid # InvalidOid THEN t.oid = call.toastOid
                 ELSE t.oid >= FirstNormalObjectId
        /\ \A x \in ToastIndexesOf(call.relOid) :
              IF call.toastIndexOid # InvalidOid THEN x.oid = call.toastIndexOid
              ELSE x.oid >= FirstNormalObjectId

\* an Oid pair the map does not know has been used as given
C11_Witness ==
    /\ C11_Case
    /\ call.toastOid # InvalidOid
    /\ call.toastIndexOid # InvalidOid
    /\ \E t \in ToastRelsOf(call.relOid) :
          t.oid = call.toastOid /\ t.reltype >= FirstNormalObjectId

\* no catalog changes in this step
CatalogsUnchanged ==
    /\ toastrels' = toastrels
    /\ indexes' = indexes
    /\ pg_depend' = pg_depend
    /\ pg_class' = pg_class

\* the case C12 is about: an entry point invoked on an owner that is not a
\* table (RELKIND_RELATION, or RELKIND_UNCATALOGED while bootstrapping)
C12_Case(o) == Invokes(o) /\ pg_class[o].relkind \notin {"r", "u"}

\* C12 as claimed: every entry point fails with WrongObjectKind and nothing
\* is created or updated
C12_Original ==
    [][\A o \in Owners :
         C12_Case(o) => (call'.err = "WrongObjectKind" /\ CatalogsUnchanged)]_vars

\* C12 as amended: BootstrapToastTable fails with WrongObjectKind before
\* anything is created or updated; AlterTableCreateToastTable and
\* AlterTableCreateToastTableWithOid do not test the kind (their callers
\* have) and provision such an owner like a table
C12_WrongObjectKind ==
    [][\A o \in Owners :
         C12_Case(o) =>
            /\ call'.entry = "BootstrapToastTable" =>
                  /\ call'.err = "WrongObjectKind"
                  /\ call'.ret = "none"
                  /\ call'.steps = <<>>
                  /\ CatalogsUnchanged
            /\ call'.entry \in AlterEntries =>
                  /\ call'.err # "WrongObjectKind"
                  /\ (pg_class[o].reltoastrelid = InvalidOid
                        /\ ~gp_upgrade_mode
                        /\ ~pg_class[o].relisshared
                        /\ RelationNeedsToastTable(pg_class[o]))
                     => ProvisionsOne(o)]_vars

\* BootstrapToastTable has refused a view
C12_Witness ==
    /\ call.entry = "BootstrapToastTable"
    /\ call.err = "WrongObjectKind"
    /\ pg_class[call.relOid].relkind = "v"
    /\ ToastRelsOf(call.relOid) = {}

\* the case C13 is about: an entry point invoked, outside upgrade mode, on
\* an owner that already references a toast relation
C13_Case(o) ==
    Invokes(o) /\ ~gp_upgrade_mode /\ pg_class[o].reltoastrelid # InvalidOid

\* C13 as claimed: every entry point, BootstrapToastTable too, completes as
\* a no-op without an error
C13_Original ==
    [][\A o \in Owners : C13_Case(o) => NoOp]_vars

\* C13 as amended: AlterTableCreateToastTable and
\* AlterTableCreateToastTableWithOid complete as a no-op without an error;
\* BootstrapToastTable changes nothing either but raises an error ("does
\* not require a toast table", or "is not a table")
C13_AlreadyToasted ==
    [][\A o \in Owners :
         C13_Case(o) =>
            /\ CatalogsUnchanged
            /\ call'.steps = <<>>
            /\ call'.entry \in AlterEntries =>
                  (call'.ret = "false" /\ call'.err = "none")
            /\ call'.entry = "BootstrapToastTable" =>
                  call'.err \in {"DoesNotRequireToast", "WrongObjectKind"}]_vars

\* BootstrapToastTable has raised its error on an owner that it toasted
\* before
C13_Witness ==
    /\ call.entry = "BootstrapToastTable"
    /\ call.err = "DoesNotRequireToast"
    /\ ~gp_upgrade_mode
    /\ pg_class[call.relOid].reltoastrelid # InvalidOid
    /\ RelationNeedsToastTable(pg_class[call.relOid])

\* this step calls create_toast_table on owner o (BootstrapToastTable does
\* not when it refuses the owner's kind)
C14_Called(o) == Invokes(o) /\ call'.err # "WrongObjectKind"

\* the three not-needed cases: already toasted outside upgrade mode, not
\* eligible, upgrade mode without a toast Oid
C14_NotNeeded(o) ==
    \/ ~gp_upgrade_mode /\ pg_class[o].reltoastrelid # InvalidOid
    \/ ~RelationNeedsToastTable(pg_class[o])
    \/ gp_upgrade_mode /\ call'.toastOid = InvalidOid

\* C14: create_toast_table returns true only with the toast relation and
\* its index created and the owner's row updated; it returns false exactly
\* in the not-needed cases, having created and changed nothing and raised
\* no error (the error BootstrapToastTable makes of a false is its own);
\* otherwise it raises an error and has changed nothing
C14_ReturnFaithful ==
    [][\A o \in Owners :
         C14_Called(o) =>
            /\ (call'.ret = "false") <=> C14_NotNeeded(o)
            /\ call'.ret = "false" =>
                  /\ CatalogsUnchanged
                  /\ call'.steps = <<>>
                  /\ call'.err = IF call'.entry = "BootstrapToastTable"
                                 THEN "DoesNotRequireToast" ELSE "none"
            /\ call'.ret = "true" =>
                  /\ ProvisionsOne(o)
                  /\ call'.steps[1] = "heap_create_with_catalog"
                  /\ call'.steps[3] = "index_create"
                  /\ \E i \in 4..Len(call'.steps) :
                        call'.steps[i] \in {"caql_update_current",
                                            "heap_inplace_update"}
            /\ call'.ret \in {"true", "false"}
                  \/ (call'.err = "UnsupportedSharedToast" /\ CatalogsUnchanged)]_vars

\* upgrade mode has suppressed the toast table of an eligible, untoasted
\* owner
C14_Witness ==
    /\ call.entry \in AlterEntries
    /\ call.ret = "false"
    /\ call.err = "none"
    /\ gp_upgrade_mode
    /\ call.toastOid = InvalidOid
    /\ RelationNeedsToastTable(pg_class[call.relOid])
    /\ pg_class[call.relOid].reltoastrelid = InvalidOid

\* the INTERNAL edge from toast relation t to owner o
C15_Edge(t, o) ==
    [objid |-> t.oid, refobjid |-> o, deptype |-> "DEPENDENCY_INTERNAL"]

\* C15: a step that creates a toast relation outside bootstrap mode, upgrade
\* mode included, records exactly the INTERNAL edge from the new toast
\* relation to its owner, before the entry point returns; in bootstrap mode
\* it records no edge; a step that creates nothing records none
C15_DependencyEdge ==
    [][\A o \in Owners :
         Invokes(o) =>
            IF call'.ret = "true"
            THEN \E t \in toastrels' \ toastrels :
                    /\ pg_depend' = IF bootstrap THEN pg_depend
                                    ELSE pg_depend \cup {C15_Edge(t, o)}
                    /\ ~bootstrap => C15_Edge(t, o) \notin pg_depend
                    /\ ("recordDependencyOn" \in
                           {call'.steps[i] : i \in 1..Len(call'.steps)})
                       <=> ~bootstrap
            ELSE pg_depend' = pg_depend]_vars

\* a toast relation created in upgrade mode, outside bootstrap mode, has
\* its edge
C15_Witness ==
    /\ call.ret = "true"
    /\ gp_upgrade_mode
    /\ ~bootstrap
    /\ \E t \in ToastRelsOf(call.relOid) :
          /\ t.oid = pg_class[call.relOid].reltoastrelid
          /\ C15_Edge(t, call.relOid) \in pg_depend

\* this step is DROP TABLE o
DropStep(o) == Invokes(o) /\ call'.entry = "DropOwner"

\* this step commits, or aborts, the unit of work that dropped o
DropCommitted(o) == o \in dropped.pending /\ o \in dropped'.gone

DropAborted(o) ==
    o \in dropped.pending /\ dropped'.pending = {} /\ o \notin dropped'.gone

\* the indexes on the toast relations T
IndexesOn(T) == {x \in indexes : \E t \in T : x.indrelid = t.oid}

ToastState(o) ==
    IF o \in dropped.gone THEN "Removed"
    ELSE IF pg_class[o].reltoastrelid = InvalidOid THEN "NoToast"
    ELSE "Toasted"

\* this step is an operation of toasting.c, or the commit of one
ProvisionerStep ==
    \/ \E o \in Owners : Invokes(o) /\ call'.entry # "DropOwner"
    \/ call # NoCall /\ call.entry # "DropOwner" /\ call' = NoCall
       /\ xact' = NoXact /\ CatalogsUnchanged

\* C17: in bootstrap mode or not, in upgrade mode or not, an entry point of
\* toasting.c, whether it creates, declines or raises, and the commit of
\* its unit of work leave an owner that references a toast relation
\* referencing one: the toast state stays, or goes from NoToast to Toasted,
\* and only the owner invoked can change state
C17_NoReverse ==
    [][ProvisionerStep =>
         \A o \in Owners :
            /\ ToastState(o) = "Toasted" =>
                  /\ (ToastState(o))' = "Toasted"
                  /\ pg_class'[o].reltoastrelid # InvalidOid
            /\ ToastState(o) = "Removed" => (ToastState(o))' = "Removed"
            /\ (ToastState(o))' # ToastState(o) =>
                  /\ ToastState(o) = "NoToast"
                  /\ Invokes(o)
                  /\ call'.ret = "true"]_vars

\* an entry point has been invoked on an owner that references a toast
\* relation, and has returned
C17_Witness ==
    /\ call # NoCall
    /\ call.entry \in AlterEntries \cup {"BootstrapToastTable"}
    /\ call.ret = "false"
    /\ call.err = "none"
    /\ pg_class[call.relOid].reltoastrelid # InvalidOid

\* the columns of a toast relation: name, type and storage class, in order
C18_Columns ==
    << <<"chunk_id", "OIDOID", "p">>, <<"chunk_seq", "INT4OID", "p">>,
       <<"chunk_data", "BYTEAOID", "p">> >>

\* owner o has the columns of a toast relation
C18_IsToastRelation(o) ==
    /\ Len(pg_class[o].att) = Len(C18_Columns)
    /\ \A i \in 1..Len(C18_Columns) :
          /\ "attname" \in DOMAIN pg_class[o].att[i]
          /\ pg_class[o].att[i].attname = C18_Columns[i][1]

\* C18: every toast relation created has exactly the three columns
\* chunk_id (Oid), chunk_seq (int4), chunk_data (bytea), in this order and
\* all of storage class plain, so that RelationNeedsToastTable is false of
\* it; and an owner that is a toast relation never gets a toast relation,
\* a toast index or a toast reference
C18_ToastNeverToasted ==
    /\ \A t \in toastrels :
          /\ t.relkind = "t"
          /\ Len(t.att) = 3
          /\ \A i \in 1..3 :
                /\ ~t.att[i].attisdropped
                /\ <<t.att[i].attname, t.att[i].atttypid, t.att[i].attstorage>>
                      = C18_Columns[i]
          /\ t.att[3].attlen = -1
          /\ ~RelationNeedsToastTable(t)
    /\ \A o \in Owners :
          C18_IsToastRelation(o) =>
             /\ ToastRelsOf(o) = {}
             /\ ToastIndexesOf(o) = {}
             /\ pg_class[o].reltoastrelid = InvalidOid
             /\ ~RelationNeedsToastTable(pg_class[o])

\* an ALTER TABLE entry point has been invoked on the owner that is a toast
\* relation and has returned, while a toast relation exists for the other
C18_Witness ==
    /\ call # NoCall
    /\ call.entry \in AlterEntries
    /\ C18_IsToastRelation(call.relOid)
    /\ call.err = "none"
    /\ call.ret = "false"
    /\ toastrels # {}

\* this step is the index entry of the row writer w has put into the heap
C19_InsertStep(w) ==
    chunks.pending[w] # NoInsert /\ chunks'.pending[w] = NoInsert

\* a stored row of relation toastrelid has the (value_id, chunk_seq) of row
C19_Present(toastrelid, row) ==
    \E r \in BagToSet(chunks.rows) :
       /\ r.toastrelid = toastrelid
       /\ r.row[1] = row[1]
       /\ r.row[2] = row[2]

\* no two stored rows of one toast relation share (value_id, chunk_seq)
C19_NoDuplicates ==
    /\ \A r \in BagToSet(chunks.rows) : CopiesIn(r, chunks.rows) = 1
    /\ \A r, q \in BagToSet(chunks.rows) :
          (/\ r.toastrelid = q.toastrelid
           /\ r.row[1] = q.row[1]
           /\ r.row[2] = q.row[2]) => r = q

\* every toast relation has one index, a unique btree on its columns 1, 2
C19_IndexShape ==
    /\ \A x \in indexes :
          /\ x.indisunique
          /\ x.indkey = <<1, 2>>
          /\ x.relam = "BTREE_AM_OID"
          /\ \E t \in toastrels : x.indrelid = t.oid
    /\ \A t \in toastrels :
          Cardinality({x \in indexes : x.indrelid = t.oid}) = 1

\* C19: the index of every toast relation is a unique btree on columns 1
\* and 2, (value_id, chunk_seq); however the inserts of the writers
\* interleave, no two stored rows of a toast relation share
\* (value_id, chunk_seq); the insert of a pair already stored is rejected
\* and leaves the stored rows as they were, and the insert of a pair not
\* stored adds the row
C19_UniqueChunks ==
    [][/\ C19_IndexShape'
       /\ C19_NoDuplicates'
       /\ \A w \in Writers :
             C19_InsertStep(w) =>
                LET p == chunks.pending[w] IN
                IF C19_Present(p.toastrelid, p.row)
                THEN /\ chunks'.rows = chunks.rows
                     /\ chunks'.last = "rejected"
                ELSE /\ chunks'.rows = chunks.rows (+) SetToBag({p})
                     /\ chunks'.last = "inserted"]_vars

\* a writer's chunk has been rejected while the other writer's insert is
\* under way: a row with the same (value_id, chunk_seq) is stored
C19_Witness ==
    /\ chunks.last = "rejected"
    /\ chunks.rows # EmptyBag
    /\ \E w \in Writers :
          /\ chunks.pending[w] # NoInsert
          /\ C19_Present(chunks.pending[w].toastrelid, chunks.pending[w].row)

\* this step ends the unit of work of a call that provisioned owner o
C20_EndsProvisioning(o) ==
    /\ ~bootstrap
    /\ call # NoCall
    /\ call.relOid = o
    /\ call.ret = "true"
    /\ call' = NoCall

\* the step has removed the toast relation owner o references, with its
\* index and its edge, and nothing else, and has put back the toast
\* reference o had before the call: none, or in upgrade mode that of a
\* toast relation made for o before
C20_Undone(o) ==
    LET made == pg_class[o].reltoastrelid IN
    /\ toastrels' = {t \in toastrels : t.oid # made}
    /\ indexes' = {x \in indexes : x.indrelid # made}
    /\ pg_depend' = {d \in pg_depend : d.objid # made}
    /\ \A p \in Owners \ {o} : pg_class'[p] = pg_class[p]
    /\ pg_class'[o] = [pg_class[o] EXCEPT !.reltoastrelid =
                          pg_class'[o].reltoastrelid]
    /\ pg_class'[o].reltoastrelid # made
    /\ \A u \in xact.undo : u[1] = o => pg_class'[o].reltoastrelid = u[2]
    /\ ~gp_upgrade_mode => pg_class'[o].reltoastrelid = InvalidOid
    /\ pg_class'[o].reltoastrelid # InvalidOid =>
          \E t \in (ToastRelsOf(o))' : t.oid = pg_class'[o].reltoastrelid

\* C20: outside bootstrap mode, (a) an entry point that raises an ERROR,
\* before or after any step of the creation sequence, leaves no toast
\* relation, index or edge behind and the rows of pg_class as they were,
\* with no unit of work open; (b) a call that provisions keeps the owner's
\* former toast reference for the abort; (c) the unit of work of a call
\* that provisioned ends either by commit, which keeps everything, or by
\* abort, after which the toast relation, the index and the edge made by
\* the call are gone and the owner has the toast reference of before
C20_Atomic ==
    [][\A o \in Owners :
         /\ (~bootstrap /\ Invokes(o) /\ call'.err # "none") =>
               /\ CatalogsUnchanged
               /\ xact' = NoXact
               /\ locks' = {}
         /\ (~bootstrap /\ Invokes(o) /\ call'.ret = "true") =>
               /\ xact'.undo = {<<o, pg_class[o].reltoastrelid>>}
               /\ xact'.created =
                     {t.oid : t \in toastrels' \ toastrels}
                     \cup {x.oid : x \in indexes' \ indexes}
         /\ C20_EndsProvisioning(o) => CatalogsUnchanged \/ C20_Undone(o)]_vars

\* outside bootstrap mode the creation sequence has raised an ERROR after
\* the owner's row was updated, and nothing of it is left
C20_Witness ==
    /\ ~bootstrap
    /\ call # NoCall
    /\ call.err = "ERROR"
    /\ \E i \in DOMAIN call.steps : call.steps[i] = "caql_update_current"
    /\ pg_class[call.relOid].reltoastrelid = InvalidOid
    /\ ToastRelsOf(call.relOid) = {}
    /\ ToastIndexesOf(call.relOid) = {}
    /\ xact = NoXact

\* some owner's row references the toast relation of Oid toid
Referenced(toid) == \E o \in Owners : pg_class[o].reltoastrelid = toid

\* C21: in bootstrap mode, whatever has happened, an ERROR during the
\* creation sequence included, every toast relation is referenced by the
\* row of an owner, and every toast index is on a toast relation so
\* referenced
C21_NoPartialState ==
    bootstrap =>
       /\ \A t \in toastrels : Referenced(t.oid)
       /\ \A x \in indexes : Referenced(x.indrelid)

ProvisionerEntries == AlterEntries \cup {"BootstrapToastTable"}

\* the lock an entry point takes on owner o
OwnerLock(o) == <<o, "AccessExclusiveLock">>

\* an entry point has returned, or has raised in bootstrap mode, and its
\* unit of work has not ended
C22_Returned ==
    /\ call # NoCall
    /\ call.entry \in ProvisionerEntries
    /\ bootstrap \/ call.err = "none"

\* the locks index_create has taken on the objects this step created
C22_NewLocks ==
    UNION {IndexCreateLocks(x.indrelid, x.oid) : x \in indexes' \ indexes}

\* this step is AlterTableCreateToastTableWithOid on o for a partition child
C22_ChildWithOid(o) ==
    /\ Invokes(o)
    /\ call'.entry = "AlterTableCreateToastTableWithOid"
    /\ \E c \in {NullPointer, BootstrapToastTypid(call'.toastOid)} :
          AlterTableCreateToastTableWithOid(o, call'.toastOid,
                                            call'.toastIndexOid, c, TRUE)

\* what the step leaves locked besides the owner: nothing that was not
\* taken on the new toast relation and index, and these either both or not
\* at all
C22_OnlyNewReleased(o) ==
    /\ locks' \ {OwnerLock(o)} \subseteq C22_NewLocks
    /\ locks' \ {OwnerLock(o)} \in {{}, C22_NewLocks}

C23_InSection(b) == backends[b].pc \in {"opened", "creating", "returned"}

\* this step is the tests of create_toast_table run by backend b
C23_TestStep(b) == backends[b].pc = "opened" /\ backends'[b].pc # "opened"

\* this step is a step of backend b on owner o
C23_StepOn(b, o) ==
    /\ backends'[b] # backends[b]
    /\ o = IF backends[b].pc = "idle" THEN backends'[b].relOid
           ELSE backends[b].relOid

\* no two backends are at work on one owner
C23_OneAtATime ==
    \A b, c \in Backends :
       (b # c /\ C23_InSection(b) /\ C23_InSection(c)) =>
          backends[b].relOid # backends[c].relOid

\* a step of a backend on owner o leaves what belongs to the other owners
C23_NoInterference ==
    \A b \in Backends, o \in Owners :
       C23_StepOn(b, o) =>
          \A p \in Owners \ {o} :
             /\ pg_class'[p] = pg_class[p]
             /\ (ToastRelsOf(p))' = ToastRelsOf(p)
             /\ (ToastIndexesOf(p))' = ToastIndexesOf(p)
             /\ {d \in pg_depend' : d.refobjid = p} =
                   {d \in pg_depend : d.refobjid = p}

----------------------------------------------------------------------------
(* C24: the CommandCounterIncrement that ends a provisioning run.          *)

\* the positions of step name in the steps of the last call
StepsNamed(name) == {i \in DOMAIN call.steps : call.steps[i] = name}

\* the steps that write the owner's pg_class row
UpdateSteps == StepsNamed("caql_update_current")
                  \cup StepsNamed("heap_inplace_update")

\* an entry point has run create_toast_table to its return
C24_Ran == /\ call # NoCall
           /\ call.entry \in ProvisionerEntries

\* C24: on every run of create_toast_table that returns true the last step
\* is a CommandCounterIncrement, issued after the update of the owner's
\* pg_class row and after the registration of the dependency (which only
\* bootstrap mode skips); on every run that returns false no
\* CommandCounterIncrement is issued at all
C24_EndsWithBarrier ==
    C24_Ran =>
       /\ call.ret = "true" =>
             /\ call.steps # <<>>
             /\ call.steps[Len(call.steps)] = "CommandCounterIncrement"
             /\ UpdateSteps # {}
             /\ ~bootstrap => StepsNamed("recordDependencyOn") # {}
             /\ \A i \in UpdateSteps \cup StepsNamed("recordDependencyOn") :
                   i < Len(call.steps)
       /\ call.ret = "false" => StepsNamed("CommandCounterIncrement") = {}

\* a run outside bootstrap mode has returned true: the row is updated, the
\* dependency registered and the CommandCounterIncrement issued last
C24_Witness ==
    /\ C24_Ran
    /\ ~bootstrap
    /\ call.ret = "true"
    /\ StepsNamed("recordDependencyOn") # {}
    /\ call.steps[Len(call.steps)] = "CommandCounterIncrement"

\* a run has returned false without a CommandCounterIncrement
C24_WitnessDeclined ==
    /\ C24_Ran
    /\ call.ret = "false"
    /\ call.err = "none"
    /\ call.steps = <<>>

----------------------------------------------------------------------------
(* C25: the order of the creation sequence.                                *)

\* every step named a comes before every step named b in the last call
C25_Before(a, b) ==
    \A i \in StepsNamed(a), j \in StepsNamed(b) : i < j

\* some CommandCounterIncrement lies between every step named a and every
\* step named b
C25_BarrierBetween(a, b) ==
    \A i \in StepsNamed(a), j \in StepsNamed(b) :
       \E k \in StepsNamed("CommandCounterIncrement") : i < k /\ k < j

\* the name of the step that writes the owner's row in the current mode
C25_Update ==
    IF bootstrap THEN "heap_inplace_update" ELSE "caql_update_current"

\* C25: in every run of create_toast_table that returns true the toast
\* relation is created once and first, a CommandCounterIncrement follows
\* before the one index_create, the locks on the new objects are released
\* (for a partition child only) after index_create and before the owner's
\* row is written, the row is written once, the dependency is recorded
\* after it (bootstrap mode records none) and a CommandCounterIncrement
\* comes last; nothing else is executed
C25_StepOrder ==
    (C24_Ran /\ call.ret = "true") =>
       /\ StepsNamed("heap_create_with_catalog") = {1}
       /\ Cardinality(StepsNamed("index_create")) = 1
       /\ Cardinality(UpdateSteps) = 1
       /\ Cardinality(StepsNamed("CommandCounterIncrement")) = 2
       /\ Cardinality(StepsNamed("UnlockRelationOid")) \in {0, 2}
       /\ Cardinality(StepsNamed("recordDependencyOn"))
             = IF bootstrap THEN 0 ELSE 1
       /\ Len(call.steps) =
             5 + Cardinality(StepsNamed("UnlockRelationOid"))
               + Cardinality(StepsNamed("recordDependencyOn"))
       /\ C25_BarrierBetween("heap_create_with_catalog", "index_create")
       /\ C25_Before("index_create", "UnlockRelationOid")
       /\ C25_Before("UnlockRelationOid", C25_Update)
       /\ C25_Before("index_create", C25_Update)
       /\ C25_Before(C25_Update, "recordDependencyOn")
       /\ Len(call.steps) \in StepsNamed("CommandCounterIncrement")

\* a partition child has been provisioned outside bootstrap mode: all the
\* seven kinds of step have been executed
C25_Witness ==
    /\ C24_Ran
    /\ call.ret = "true"
    /\ call.steps = <<"heap_create_with_catalog", "CommandCounterIncrement",
                      "index_create", "UnlockRelationOid",
                      "UnlockRelationOid", "caql_update_current",
                      "recordDependencyOn", "CommandCounterIncrement">>

----------------------------------------------------------------------------
(* C26: the error for a shared relation comes before any side effect.      *)

\* what create_toast_table had done when it raised UnsupportedSharedToast
\* in this step, an invocation on owner o: every result the invocation can
\* have had with this error
C26_AtRaise(o) ==
    {out \in {create_toast_table(o, call'.toastOid, call'.toastIndexOid,
                                 c, child) :
                 c \in {NullPointer, BootstrapToastTypid(call'.toastOid)},
                 child \in BOOLEAN} :
        out.err = "UnsupportedSharedToast"}

\* this step is an invocation on o that raises UnsupportedSharedToast
C26_Raises(o) ==
    /\ Invokes(o)
    /\ call'.entry \in ProvisionerEntries
    /\ call'.err = "UnsupportedSharedToast"

\* C26: when create_toast_table raises UnsupportedSharedToast it has
\* created no toast relation and no index, taken no lock on a new object,
\* written no pg_class row, recorded no dependency and issued no
\* CommandCounterIncrement; the step that raises adds nothing to the
\* catalogs and leaves no lock of index_create behind
C26_NoSideEffect ==
    [][\A o \in Owners :
          C26_Raises(o) =>
             /\ C26_AtRaise(o) # {}
             /\ \A out \in C26_AtRaise(o) :
                   /\ out.newrels = {}
                   /\ out.newidxs = {}
                   /\ out.newlocks = {}
                   /\ out.newdeps = {}
                   /\ out.toast_relid = InvalidOid
                   /\ out.steps = <<>>
             /\ call'.steps = <<>>
             /\ toastrels' \subseteq toastrels
             /\ indexes' \subseteq indexes
             /\ pg_depend' \subseteq pg_depend
             /\ pg_class'[o] = pg_class[o]
             /\ locks' = {}]_vars

\* UnsupportedSharedToast has been raised for a shared owner that needs a
\* toast table, outside bootstrap and upgrade mode
C26_Witness ==
    /\ call # NoCall
    /\ call.entry \in AlterEntries
    /\ call.err = "UnsupportedSharedToast"
    /\ pg_class[call.relOid].relisshared
    /\ RelationNeedsToastTable(pg_class[call.relOid])
    /\ ~bootstrap /\ ~gp_upgrade_mode

----------------------------------------------------------------------------
(* C27: how the owner's pg_class row is written.                           *)

\* the positions of step name in the steps of the call this step makes
C27_StepsNamed(name) == {i \in DOMAIN call'.steps : call'.steps[i] = name}

\* this step is a run on owner o that returns true
C27_Provisions(o) ==
    /\ Invokes(o)
    /\ call'.entry \in ProvisionerEntries
    /\ call'.ret = "true"

\* C27: a run that returns true writes the owner's row once, with
\* caql_update_current (an update the transaction can undo) exactly when
\* the engine is not in bootstrap mode, upgrade mode included, and with
\* heap_inplace_update (nothing to undo) exactly when it is; the row
\* written references the toast relation the run created
C27_RowUpdate ==
    [][\A o \in Owners :
          C27_Provisions(o) =>
             /\ Cardinality(C27_StepsNamed("caql_update_current"))
                   = IF bootstrap THEN 0 ELSE 1
             /\ Cardinality(C27_StepsNamed("heap_inplace_update"))
                   = IF bootstrap THEN 1 ELSE 0
             /\ (~bootstrap) <=> (\E u \in xact'.undo \ xact.undo : u[1] = o)
                                    \/ (\E u \in xact.undo : u[1] = o)
             /\ bootstrap => xact' = xact
             /\ \E t \in toastrels' \ toastrels :
                   /\ t.relname = toast_relname(o)
                   /\ t.oid # InvalidOid
                   /\ pg_class'[o].reltoastrelid = t.oid
                   /\ toastrels' \ toastrels = {t}]_vars

\* in upgrade mode outside bootstrap mode a run has returned true and has
\* written the row with caql_update_current
C27_Witness ==
    /\ gp_upgrade_mode
    /\ ~bootstrap
    /\ C24_Ran
    /\ call.ret = "true"
    /\ StepsNamed("caql_update_current") # {}
    /\ StepsNamed("heap_inplace_update") = {}
    /\ pg_class[call.relOid].reltoastrelid # InvalidOid
    /\ \E u \in xact.undo : u[1] = call.relOid

----------------------------------------------------------------------------
(* C28: the locks on the new toast relation and on its index.              *)

\* this step is an entry point run on owner o with is_part_child true
C28_Child(o) ==
    \/ AlterTableCreateToastTable(o, TRUE)
    \/ C22_ChildWithOid(o)

\* in the call this step makes, the two UnlockRelationOid calls come after
\* index_create and before the write of the owner's row
C28_ReleasedInBetween ==
    /\ Cardinality(C27_StepsNamed("UnlockRelationOid")) = 2
    /\ \A u \in C27_StepsNamed("UnlockRelationOid") :
          /\ \A i \in C27_StepsNamed("index_create") : i < u
          /\ \A w \in C27_StepsNamed("caql_update_current")
                         \cup C27_StepsNamed("heap_inplace_update") : u < w

\* this step ends the unit of work: commit, abort, or the abort an ERROR
\* causes outside bootstrap mode
C28_EndsUnitOfWork ==
    \/ call # NoCall /\ call' = NoCall
    \/ ~bootstrap /\ call = NoCall /\ call' # NoCall /\ call'.err # "none"

\* C28: a run that returns true has released the ShareLock on the new
\* toast relation and the AccessExclusiveLock on the new index exactly when
\* is_part_child is true, and then both, after index_create and before the
\* owner's row is written; when is_part_child is false both are held when
\* the run returns; no held lock is released by a step that does not end
\* the unit of work
C28_NewObjectLocks ==
    [][/\ \A o \in Owners :
             C27_Provisions(o) =>
                /\ C22_NewLocks # {}
                /\ C28_Child(o) =>
                      /\ C22_NewLocks \cap locks' = {}
                      /\ C28_ReleasedInBetween
                /\ ~C28_Child(o) =>
                      /\ C22_NewLocks \subseteq locks'
                      /\ C27_StepsNamed("UnlockRelationOid") = {}
       /\ ~(locks \subseteq locks') => C28_EndsUnitOfWork]_vars

\* a partition child has been provisioned and neither the new index nor
\* the new toast relation is locked
C28_Witness ==
    /\ C24_Ran
    /\ call.ret = "true"
    /\ Cardinality(StepsNamed("UnlockRelationOid")) = 2
    /\ \E x \in ToastIndexesOf(call.relOid) :
          /\ x.indrelid = pg_class[call.relOid].reltoastrelid
          /\ IndexCreateLocks(x.indrelid, x.oid) \cap locks = {}

\* an owner that is not a partition child has been provisioned and both
\* locks are held
C28_WitnessHeld ==
    /\ C24_Ran
    /\ call.ret = "true"
    /\ StepsNamed("UnlockRelationOid") = {}
    /\ \E x \in ToastIndexesOf(call.relOid) :
          /\ x.indrelid = pg_class[call.relOid].reltoastrelid
          /\ IndexCreateLocks(x.indrelid, x.oid) \subseteq locks

----------------------------------------------------------------------------
(* C29: the shared-relation flag of a toast relation.                      *)

\* C29: every toast relation carries the relisshared of the owner it was
\* created for, whatever the entry point and the mode that created it
C29_SharedAsOwner ==
    \A o \in Owners :
       \A t \in ToastRelsOf(o) : t.relisshared = pg_class[o].relisshared

\* a shared owner has a shared toast relation and another owner, not
\* shared, a toast relation that is not shared
C29_Witness ==
    \E o, p \in Owners :
       /\ pg_class[o].relisshared
       /\ ~pg_class[p].relisshared
       /\ \E t \in ToastRelsOf(o) :
             t.oid = pg_class[o].reltoastrelid /\ t.relisshared
       /\ \E t \in ToastRelsOf(p) :
             t.oid = pg_class[p].reltoastrelid /\ ~t.relisshared

----------------------------------------------------------------------------
(* C30: the names of the toast relation and of its index.                  *)

\* C30: the two names are a function of the owner's Oid, pg_toast_<oid>
\* and pg_toast_<oid>_index: an Oid named twice gets the same names, two
\* different Oids get different relation names and different index names,
\* and the relation name of no Oid is the index name of any Oid
C30_Names ==
    /\ \A n \in names :
          /\ n.toast_relname = "pg_toast_" \o FormatUnsigned(n.relOid)
          /\ n.toast_idxname = n.toast_relname \o "_index"
    /\ \A n, m \in names :
          /\ n.relOid = m.relOid => n = m
          /\ n.relOid # m.relOid =>
                /\ n.toast_relname # m.toast_relname
                /\ n.toast_idxname # m.toast_idxname
          /\ n.toast_relname # m.toast_idxname

\* owners whose Oids are prefixes of one another have been named, one of
\* them with an Oid of several digits
C30_Witness ==
    \E n, m \in names :
       /\ n.relOid = 1
       /\ m.relOid = 11
       /\ n.toast_relname = "pg_toast_1"
       /\ m.toast_idxname = "pg_toast_11_index"

----------------------------------------------------------------------------
(* C31: what the owner's reference stands for.                             *)

\* toast relation t has its index: unique, btree, on chunk_id, chunk_seq
C31_Indexed(t) ==
    \E x \in indexes :
       /\ x.indrelid = t.oid
       /\ x.indisunique
       /\ x.indkey = <<1, 2>>
       /\ t.att[1].attname = "chunk_id"
       /\ t.att[2].attname = "chunk_seq"

\* C31: in every state, an owner whose pg_class row has a valid
\* reltoastrelid references a toast relation that exists and has its
\* unique index on (chunk_id, chunk_seq): the reference is never stored
\* before heap_create_with_catalog and index_create have returned (the
\* row of an owner that is being dropped or has been dropped is not a row
\* of the catalog)
C31_ReferenceResolves ==
    \A o \in Owners \ (dropped.gone \cup dropped.pending) :
       pg_class[o].reltoastrelid # InvalidOid =>
          \E t \in toastrels :
             /\ t.oid = pg_class[o].reltoastrelid
             /\ t.relkind = "t"
             /\ C31_Indexed(t)

\* the creation sequence has raised an ERROR after index_create, in
\* bootstrap mode where nothing is undone, and no owner references the
\* relation it left behind
C31_Witness ==
    /\ bootstrap
    /\ call # NoCall
    /\ call.err # "none"
    /\ \E t \in toastrels : C31_Indexed(t) /\ ~Referenced(t.oid)
    /\ \E o \in Owners : pg_class[o].reltoastrelid # InvalidOid

----------------------------------------------------------------------------
(* C32: eligibility and the declared sizes.                                *)

\* the evaluation of the enlarged relation stays within int32: no
\* addition of the loop overflows and neither does tuple_length
C32_InRange ==
    /\ ~AdditionOverflows(pg_class[2].att, 1, 0)
    /\ ScanResult(pg_class[2]).data_length
          <= INT32_MAX - MAXIMUM_ALIGNOF
                - MAXALIGN(HeapTupleHeaderBitsOffset
                              + BITMAPLEN(Len(pg_class[2].att)))

\* the enlarged relation, owner 2, has been evaluated
C32_Evaluated == needs.relOid = 2

\* C32: for an owner of non-exempt kind, a larger declared maximum of a
\* variable-length attribute, an unbounded one, or a further live
\* attribute never changes RelationNeedsToastTable from true to false
C32_Monotone ==
    (C32_Evaluated /\ RelationNeedsToastTable(pg_class[1])) => needs.result

\* the same for the relations whose sizes add up within int32
C32_MonotoneInRange ==
    (C32_Evaluated /\ C32_InRange /\ RelationNeedsToastTable(pg_class[1]))
       => needs.result

----------------------------------------------------------------------------
(* gpfs_hdfs_openfile                                                      *)

C33_Openfile == fs.entry = "gpfs_hdfs_openfile"

\* the call was turned away by a test made before the loop
C33_Rejected ==
    FsInvalid("gpfs_hdfs_openfile", fs.manager, fs.given)

\* what holds of the attempts of any call: a further attempt follows only
\* a NULL handle with errno EBUSY, there are at most 300 of them, nothing
\* is slept before the first and at most a second (in microseconds) before
\* a later one
C33_Attempts ==
    C33_Openfile =>
        /\ fs.attempts <= 300
        /\ fs.pc = "loop" /\ fs.attempts >= 1 =>
              fs.hFile = "NULL" /\ fs.errno = "EBUSY"
        /\ fs.attempts = 1 => fs.slept = 0
        /\ fs.slept <= 1000 * 1000

\* the result follows the last attempt: 0 and its handle in the call
\* context when the handle is not NULL, -1 otherwise
C33_Result ==
    C33_Openfile /\ fs.pc = "returned" /\ fs.attempts >= 1 =>
        /\ fs.retval = IF fs.hFile # "NULL" THEN 0 ELSE -1
        /\ fs.context = [fs.given EXCEPT !.hFile = fs.hFile]

C33_Terminates == C33_Openfile /\ fs.pc = "loop" ~> fs.pc = "returned"

C33_AtLeastOnce == C33_Openfile /\ fs.pc = "returned" => fs.attempts >= 1

\* C33 as stated: gpfs_hdfs_openfile always terminates, calls hdfsOpenFile
\* at least once and at most 300 times, retries only after a NULL handle
\* with errno EBUSY, never sleeps before the first attempt nor longer than
\* one second before a later one, and returns 0 with the handle stored iff
\* the last attempt gave a handle that is not NULL, -1 otherwise.
C33_Original ==
    /\ [](C33_Attempts /\ C33_Result /\ C33_AtLeastOnce)
    /\ [](C33_Openfile /\ fs.pc = "returned" /\ fs.attempts = 0 =>
             fs.retval = -1)
    /\ C33_Terminates

\* C33, amended: gpfs_hdfs_openfile always terminates.  Called outside the
\* filesystem manager or with an argument that fails its tests, it returns
\* -1 without a call of hdfsOpenFile.  Otherwise it calls hdfsOpenFile at
\* least once and at most 300 times, retries only after a NULL handle with
\* errno EBUSY, never sleeps before the first attempt nor longer than one
\* second before a later one, and returns 0 with the handle stored iff the
\* last attempt gave a handle that is not NULL, -1 otherwise.
C33_OpenfileRetries ==
    /\ [](C33_Attempts /\ C33_Result)
    /\ [](C33_Openfile /\ fs.pc = "returned" =>
             IF C33_Rejected
             THEN fs.attempts = 0 /\ fs.retval = -1
             ELSE fs.attempts >= 1)
    /\ C33_Terminates

\* the call was retried, slept, and got its handle in a later attempt
C33_Witness ==
    /\ C33_Openfile /\ fs.pc = "returned"
    /\ fs.attempts > 1 /\ fs.slept > 0
    /\ fs.retval = 0 /\ fs.context.hFile = "valid"

\* the call gave up after its last retry
C33_WitnessGaveUp ==
    /\ C33_Openfile /\ fs.pc = "returned"
    /\ fs.attempts = 300 /\ fs.retval = -1 /\ fs.errno = "EBUSY"

----------------------------------------------------------------------------
(* The tests of the gpfs_hdfs_* entry points                               *)

\* the entry points that are given a connection, a file handle, a path,
\* a buffer with its length, a position, or sizes
C34_Takes ==
    [connection |-> {"gpfs_hdfs_disconnect", "gpfs_hdfs_openfile",
                     "gpfs_hdfs_sync", "gpfs_hdfs_closefile",
                     "gpfs_hdfs_createdirectory", "gpfs_hdfs_delete",
                     "gpfs_hdfs_chmod", "gpfs_hdfs_read", "gpfs_hdfs_write",
                     "gpfs_hdfs_seek", "gpfs_hdfs_tell",
                     "gpfs_hdfs_truncate", "gpfs_hdfs_getpathinfo"},
     handle |-> {"gpfs_hdfs_sync", "gpfs_hdfs_closefile", "gpfs_hdfs_read",
                 "gpfs_hdfs_write", "gpfs_hdfs_seek", "gpfs_hdfs_tell"},
     path |-> {"gpfs_hdfs_openfile", "gpfs_hdfs_createdirectory",
               "gpfs_hdfs_delete", "gpfs_hdfs_chmod", "gpfs_hdfs_truncate",
               "gpfs_hdfs_getpathinfo"},
     buffer |-> {"gpfs_hdfs_read", "gpfs_hdfs_write"},
     position |-> {"gpfs_hdfs_seek", "gpfs_hdfs_truncate"},
     sizes |-> {"gpfs_hdfs_openfile"}]

\* the call that has returned was made outside the filesystem manager, or
\* with a NULL connection, file handle, path or buffer, or with a negative
\* length, position or size
C34_Covered ==
    /\ fs.pc = "returned"
    /\ \/ ~fs.manager
       \/ fs.entry \in C34_Takes.connection /\ fs.given.hdfs = "NULL"
       \/ fs.entry \in C34_Takes.handle /\ fs.given.hFile = "NULL"
       \/ fs.entry \in C34_Takes.path /\ fs.given.path = "NULL"
       \/ fs.entry \in C34_Takes.buffer /\ fs.given.databuf = "NULL"
       \/ fs.entry \in C34_Takes.buffer /\ fs.given.buflen < 0
       \/ fs.entry \in C34_Takes.position /\ fs.given.pos < 0
       \/ fs.entry \in C34_Takes.sizes /\ fs.given.filebufsize < 0
       \/ fs.entry \in C34_Takes.sizes /\ fs.given.fileblksize < 0

\* C34: an entry point called outside the filesystem manager, or with a
\* NULL connection, file handle, path or buffer, or with a negative length,
\* position or size, returns -1 with errno EINVAL, calls no libhdfs
\* function and leaves the call context as it was given.
C34_TurnedAway ==
    C34_Covered =>
        /\ fs.retval = -1
        /\ fs.errno = "EINVAL"
        /\ fs.lib = <<>>
        /\ fs.context = fs.given

\* a call through the manager on a good connection and file, turned away
\* for its negative position alone
C34_Witness ==
    /\ C34_Covered
    /\ fs.entry = "gpfs_hdfs_seek" /\ fs.manager
    /\ fs.given.hdfs = "valid" /\ fs.given.hFile = "valid"
    /\ fs.given.pos < 0

\* a call outside the manager with arguments that are all good
C34_WitnessOutside ==
    /\ C34_Covered
    /\ ~fs.manager
    /\ ~ArgumentInvalid(fs.entry, fs.given)

----------------------------------------------------------------------------
(* Reading through the accessor                                            *)

\* the accessor's fragment is a split of the file
C35_Selected ==
    pxf.fragment # INVALID_SPLIT_IDX /\ pxf.fragment < Len(pxf.splits)

\* the number of records of the selected split, none when no split is
C35_Count == IF C35_Selected THEN pxf.splits[pxf.fragment + 1] ELSE 0

\* what the k-th call of readNextObject is to give: the k-th record of the
\* selected split, and null once the records are used up
C35_Due(k) ==
    IF k <= C35_Count THEN Returned("OneRow", pxf.fragment, k)
    ELSE Returned("null", 0, 0)

\* C35: after openForRead, whether it returned true or false, the calls of
\* readNextObject give the records of the selected split in order, each
\* once, then null, and null again in every later call; no call fails.
C35_ReadsInOrder ==
    pxf.opened =>
        \A k \in 1..Len(pxf.results) : pxf.results[k] = C35_Due(k)

\* the same of the accessors whose openForRead returned true
C35_ReadsInOrderWhenOpen ==
    pxf.opened /\ pxf.openResult =>
        \A k \in 1..Len(pxf.results) : pxf.results[k] = C35_Due(k)

\* openForRead returns true exactly when the fragment is a split of the file
C35_OpenResult == pxf.opened => (pxf.openResult <=> C35_Selected)

\* every record of a split was read, and null was given twice after them
C35_ReadToTheEnd ==
    /\ pxf.openResult /\ C35_Count = MaxRecords
    /\ Len(pxf.results) = MaxRecords + 2

\* a call of readNextObject failed after openForRead had returned false
C35_FailedRead ==
    /\ pxf.opened /\ ~pxf.openResult
    /\ \E k \in 1..Len(pxf.results) : pxf.results[k].kind = "NullPointerException"

====
